---- MODULE Spec2Model ----
(* CodeSense: the ingestion endpoint, the ingestion coordinator and the      *)
(* Celery pipeline task of backend/app, as a state machine over the         *)
(* relational store, the task queue, the object store and the vector index. *)
EXTENDS Integers, Sequences, FiniteSets, TLC

(* ------------------------------------------------------------------ *)
(* Bounds of the model                                                 *)
(* ------------------------------------------------------------------ *)

\* ingest calls made over one behaviour
MaxCalls == 2

\* task deliveries made by the broker over one behaviour
MaxDeliveries == 2

\* failures injected over one behaviour: stages that raise, cancel signals
MaxFaults == 1

\* completed runs of the embed stage over one clone
MaxStageRuns == 2

\* lines of the longest source file
MaxLines == 110

\* completed runs of the indexing stages over one clone
MaxIndexRuns == 2

\* chat sessions created and messages processed over one behaviour
MaxSessions == 2
MaxMessages == 2

\* chunks of the run embedded remotely, seconds the clock runs, and the
\* clock's reading when the worker process starts
MaxRemoteChunks == 2
MaxElapsed == 150
ProcessStart == 100

\* responses other than 200 that the embedding API gives over one run
MaxBadResponses == 3

\* phrases in one query
MaxPhrases == 3

\* characters in a query given to execute_query
MaxQueryLen == 20

\* delete_repo_task runs
MaxDeletes == 1

\* class declarations and methods of a file
MaxClasses == 3
MaxMethods == 2

\* HTTP handlers that may run concurrently
Handlers == {1, 2}

\* Celery worker processes
Workers == {1, 2}

\* authenticated callers (clerk ids), in the order they first call
Users == <<"alice", "bob">>

\* commit SHAs the remote HEAD may resolve to, in the order they first appear
Commits == <<"c1", "c2">>

None == "none"

(* ------------------------------------------------------------------ *)
(* URLs.  A URL is its netloc (dot-separated labels) and its path       *)
(* (slash-separated parts, each a sequence of tokens so that a ".git"   *)
(* suffix is a token of the last part).                                 *)
(* ------------------------------------------------------------------ *)

Urls ==
    { [netloc |-> <<"github", "com">>, path |-> << <<"test">>, <<"repo">> >>],
      [netloc |-> <<"github", "com">>, path |-> << <<"test">>, <<"repo", ".git">> >>],
      [netloc |-> <<"github", "com">>, path |-> << <<"test">> >>] }

\* str.replace(".git", ""): every ".git" token is dropped
StripGit(part) == SelectSeq(part, LAMBDA t : t # ".git")

\* GitCloner.parse_url: ValueError when the path has fewer than two parts
ParseUrlFails(url) == Len(url.path) < 2

\* GitCloner.parse_url: (provider, owner, name)
ParseUrl(url) == <<url.netloc, url.path[1], StripGit(url.path[2])>>

\* ingest_repository: "github.com" -> "github"
NormalizeProvider(provider) ==
    IF Len(provider) > 1 THEN <<Head(provider)>> ELSE provider

\* the (provider, owner, name) the endpoint looks the repository up by
RepoKey(url) ==
    LET p == ParseUrl(url) IN <<NormalizeProvider(p[1]), p[2], p[3]>>

(* ------------------------------------------------------------------ *)
(* State                                                               *)
(* ------------------------------------------------------------------ *)

\* remote embedding: limiter, semaphore and retry parameters
RequestsPerMinute == 10
DelayBetweenRequests == 60 \div RequestsPerMinute
MaxAsyncConcurrency == 2
MaxRetries == 3
BackoffBase == 20
Slots == 1..MaxAsyncConcurrency
IdleCall == [pc |-> "idle", chunk |-> 0, attempt |-> 0, wake |-> 0, req |-> 0]

\* no QueryIntent yet
NoIntent == [query_type |-> None, primary_intent |-> None, confidence |-> 0]

\* no static query yet
NoResult == [success |-> FALSE, answer |-> None, rows |-> {}, path |-> <<>>]
NoQuery == [phase |-> None, intent |-> None, entities |-> <<>>, commit_sha |-> None,
            from_id |-> <<>>, to_id |-> <<>>, max_depth |-> 0, result |-> NoResult]

\* static_results = None
NoStatic == [success |-> FALSE, formatted_answer |-> None, ran |-> FALSE]


VARIABLES
    repos,        \* Repository rows: records [id, key, latest_commit_sha, last_indexed_at]
    access,       \* RepoAccess rows: <<user, repo id>>
    runs,         \* IngestionRun rows: run id -> [call, repo_id, commit_sha, status, error]
    queue,        \* run ids submitted to the broker and not yet acknowledged
    symbolRows,   \* (repo_id, commit_sha) partitions whose CodeSymbol rows are committed
    relRows,      \* (repo_id, commit_sha) partitions whose SymbolRelationship rows are committed
    vectors,      \* (repo_id, commit_sha) partitions upserted into the vector index
    blobs,        \* objects in the object store: <<key, commit_sha, artifact kind>>
    calls,        \* number of ingest calls begun
    deliveries,   \* number of task deliveries made
    faults,       \* number of failures injected
    hpc,          \* handler -> position in ingest_repository
    hreq,         \* handler -> the call it serves [call, user, key, commit, repo, run]
    responses,    \* call -> the response returned [user, commit, key, code, run_id, repo_id, status]
    wpc,          \* worker -> position in trigger_ingestion_pipeline
    wtask,        \* worker -> [run, exc, path, broken]
    started,      \* run ids some worker has begun executing
    estage,       \* the embed stage under study: [tree, embedder, repo_id, commit_sha, done]
    points,       \* the vector collection: point id -> payload
    istage,       \* the indexing stages under study: [program, repo_id, commit_sha, phase, done]
    codeSymbols,  \* CodeSymbol rows
    symbolRels,   \* SymbolRelationship rows
    sessions,     \* ChatSession rows: session id -> [user, repo_id, commit_sha, requested, latest]
    answers,      \* messages processed: <<[session, engine, repo_id, commit_sha, pinned]>>
    now,          \* time.time(), in seconds
    limiter,      \* global_limiter: [last_request_time, lock]
    ecall,        \* embed_single_chunk coroutines inside the semaphore: slot -> [pc, chunk, attempt, wake, req]
    requests,     \* outbound embedding requests: <<[chunk, attempt, time, limited, response]>>
    rrun,         \* the run in process_embeddings_async: [phase, total, started, results, status, error, stored]
    route,        \* a query at the router: [phase, query, intent]
    hybrid,       \* a call of execute_query: [phase, intent, static, chunks, generator, llm_answer]
    squery,       \* a query at the static engine or the symbol repository, and its result
    rcache,       \* the cache service: [client, store], store: Redis key -> bytes
    cop,          \* the last cache or embed call: [op, text, fails, out]
    deletes,      \* delete_repo_task runs that have returned: <<[repo_id, status]>>
    ifile,        \* a file at index_file: [phase, classes, methods, symbols, cache]
    disk,         \* scratch files and directories on the workers' local disk
    pm,           \* a call of process_message: [phase, calls, session, content, citations, raised, added]
    chatDb        \* the request's database session: [pending, stored], rows added and rows committed

vars == <<repos, access, runs, queue, symbolRows, relRows, vectors, blobs,
          calls, deliveries, faults, hpc, hreq, responses, wpc, wtask, started,
          estage, points, istage, codeSymbols, symbolRels, sessions, answers,
          now, limiter, ecall, requests, rrun, route, hybrid, squery,
          rcache, cop, deletes, ifile, disk, pm, chatDb>>

dbVars == <<repos, access, runs>>
storeVars == <<symbolRows, relRows, vectors, blobs>>
handlerVars == <<calls, hpc, hreq, responses>>
workerVars == <<deliveries, faults, wpc, wtask, started>>
embedVars == <<estage, points>>
indexVars == <<istage, codeSymbols, symbolRels>>
chatVars == <<sessions, answers>>
remoteVars == <<now, limiter, ecall, requests, rrun>>
routeVars == <<route>>
hybridVars == <<hybrid>>
staticVars == <<squery>>
cacheVars == <<rcache, cop>>
deleteVars == <<deletes>>
fileVars == <<ifile>>
scratchVars == <<disk>>
messageVars == <<pm, chatDb>>
coreVars == <<dbVars, queue, storeVars, handlerVars, workerVars>>

NoReq == [call |-> 0, user |-> None, key |-> None, commit |-> None, repo |-> 0, run |-> 0]
\* no call of process_message is running
NoMessage == [phase |-> None, calls |-> 0, session |-> 0, content |-> None, citations |-> 0,
              raised |-> FALSE, added |-> FALSE]
NoTask == [run |-> 0, exc |-> None, path |-> FALSE, broken |-> FALSE]

Init ==
    /\ repos = {}
    /\ access = {}
    /\ runs = <<>>
    /\ queue = {}
    /\ symbolRows = {}
    /\ relRows = {}
    /\ vectors = {}
    /\ blobs = {}
    /\ calls = 0
    /\ deliveries = 0
    /\ faults = 0
    /\ hpc = [h \in Handlers |-> "idle"]
    /\ hreq = [h \in Handlers |-> NoReq]
    /\ responses = <<>>
    /\ wpc = [w \in Workers |-> "idle"]
    /\ wtask = [w \in Workers |-> NoTask]
    /\ started = {}
    /\ estage = [tree |-> <<>>, embedder |-> None, repo_id |-> None, commit_sha |-> None,
                 done |-> <<>>]
    /\ points = <<>>
    /\ istage = [program |-> None, repo_id |-> None, commit_sha |-> None, phase |-> None,
                 done |-> <<>>]
    /\ codeSymbols = {}
    /\ symbolRels = {}
    /\ sessions = <<>>
    /\ answers = <<>>
    /\ now = ProcessStart
    /\ limiter = [last_request_time |-> 0, lock |-> 0]
    /\ ecall = [s \in Slots |-> IdleCall]
    /\ requests = <<>>
    /\ rrun = [phase |-> None, total |-> 0, started |-> 0, results |-> <<>>,
               status |-> "running", error |-> None, stored |-> 0]
    /\ route = [phase |-> None, query |-> <<>>, intent |-> NoIntent]
    /\ squery = NoQuery
    /\ hybrid = [phase |-> None, intent |-> NoIntent, static |-> NoStatic, chunks |-> 0,
                 generator |-> None, llm_answer |-> None]
    /\ rcache = [client |-> "unset", store |-> <<>>]
    /\ cop = [op |-> None, text |-> None, fails |-> {},
             out |-> [raised |-> FALSE, none |-> TRUE, value |-> <<>>]]
    /\ deletes = <<>>
    /\ ifile = [phase |-> None, classes |-> <<>>, methods |-> <<>>, symbols |-> <<>>,
                cache |-> <<>>]
    /\ disk = {}
    /\ pm = NoMessage
    /\ chatDb = [pending |-> <<>>, stored |-> <<>>]

(* ------------------------------------------------------------------ *)
(* POST /ingest: ingest_repository                                     *)
(* ------------------------------------------------------------------ *)

\* the callers and the commits calls have named so far
UsedUsers ==
    {responses[c].user : c \in DOMAIN responses} \cup {hreq[h].user : h \in Handlers}

UsedCommits ==
    {responses[c].commit : c \in DOMAIN responses} \cup {hreq[h].commit : h \in Handlers}

\* callers, and commits, are interchangeable names: a call names one already
\* seen or the first one not yet seen
Choices(names, used) ==
    {names[i] : i \in {j \in 1..Len(names) : \A k \in 1..(j - 1) : names[k] \in used}}

\* select(Repository).where(provider, owner, name).first()
FindRepo(key) == {r \in repos : r.key = key}

\* the row db.add(Repository(...)) inserts; its id is the creating call's
NewRepo(call, key, commit) ==
    [id |-> call, key |-> key, latest_commit_sha |-> commit, last_indexed_at |-> None]

\* repo.latest_commit_sha = commit_sha on the row found
WithLatestCommit(id, commit) ==
    {IF r.id = id THEN [r EXCEPT !.latest_commit_sha = commit] ELSE r : r \in repos}

\* IngestResponse, or the HTTP error of a failed call
Response(user, commit, key, code, run_id, repo_id, status) ==
    [user |-> user, commit |-> commit, key |-> key, code |-> code,
     run_id |-> run_id, repo_id |-> repo_id, status |-> status]

\* a call ends: its response is returned, the handler is free again
Respond(h, code, run_id, status) ==
    /\ responses' = responses @@
         (hreq[h].call :> Response(hreq[h].user, hreq[h].commit, hreq[h].key, code, run_id,
                                   IF code = 200 THEN hreq[h].repo ELSE 0, status))
    /\ hpc' = [hpc EXCEPT ![h] = "idle"]
    /\ hreq' = [hreq EXCEPT ![h] = NoReq]

\* steps 1-2: parse the URL, resolve the remote HEAD, sync the user
BeginIngest(h) ==
    /\ hpc[h] = "idle"
    /\ \A g \in Handlers : hpc[g] = "idle" => h <= g
    /\ calls < MaxCalls
    /\ calls' = calls + 1
    /\ \E user \in Choices(Users, UsedUsers), url \in Urls,
          commit \in Choices(Commits, UsedCommits) :
         IF ParseUrlFails(url)
         THEN /\ responses' = responses @@ (calls' :> Response(None, None, None, 400, 0, 0, None))
              /\ UNCHANGED <<hpc, hreq>>
         ELSE /\ hreq' = [hreq EXCEPT ![h] = [call |-> calls', user |-> user, key |-> RepoKey(url),
                                              commit |-> commit, repo |-> 0, run |-> 0]]
              /\ hpc' = [hpc EXCEPT ![h] = "select"]
              /\ UNCHANGED responses
    /\ UNCHANGED <<messageVars, scratchVars, fileVars, deleteVars, cacheVars, staticVars, hybridVars, routeVars, remoteVars, chatVars, indexVars, embedVars, dbVars, queue, storeVars, workerVars>>

\* step 3: find the repository
SelectRepo(h) ==
    /\ hpc[h] = "select"
    /\ LET found == FindRepo(hreq[h].key) IN
         IF found = {}
         THEN /\ hpc' = [hpc EXCEPT ![h] = "insert"]
              /\ UNCHANGED hreq
         ELSE /\ hpc' = [hpc EXCEPT ![h] = "update"]
              /\ hreq' = [hreq EXCEPT ![h].repo = (CHOOSE r \in found : TRUE).id]
    /\ UNCHANGED <<messageVars, scratchVars, fileVars, deleteVars, cacheVars, staticVars, hybridVars, routeVars, remoteVars, chatVars, indexVars, embedVars, dbVars, queue, storeVars, calls, responses, workerVars>>

\* UniqueConstraint("provider", "owner", "name"): the INSERT is refused
UniqueRepoViolated(key) == \E r \in repos : r.key = key

\* step 3, not found: INSERT the repository and commit
InsertRepo(h) ==
    /\ hpc[h] = "insert"
    /\ IF UniqueRepoViolated(hreq[h].key)
       THEN \* IntegrityError, not caught: the call fails
            /\ Respond(h, 500, 0, None)
            /\ UNCHANGED repos
       ELSE /\ repos' = repos \cup {NewRepo(hreq[h].call, hreq[h].key, hreq[h].commit)}
            /\ hreq' = [hreq EXCEPT ![h].repo = hreq[h].call]
            /\ hpc' = [hpc EXCEPT ![h] = "grant"]
            /\ UNCHANGED responses
    /\ UNCHANGED <<messageVars, scratchVars, fileVars, deleteVars, cacheVars, staticVars, hybridVars, routeVars, remoteVars, chatVars, indexVars, embedVars, access, runs, queue, storeVars, calls, workerVars>>

\* step 3, not found: INSERT the owner's RepoAccess and commit
GrantAccess(h) ==
    /\ hpc[h] = "grant"
    /\ access' = access \cup {<<hreq[h].user, hreq[h].repo>>}
    /\ hpc' = [hpc EXCEPT ![h] = "start"]
    /\ UNCHANGED <<messageVars, scratchVars, fileVars, deleteVars, cacheVars, staticVars, hybridVars, routeVars, remoteVars, chatVars, indexVars, embedVars, repos, runs, queue, storeVars, calls, hreq, responses, workerVars>>

\* step 3, found: latest_commit_sha is set to the commit about to be ingested
UpdateLatest(h) ==
    /\ hpc[h] = "update"
    /\ repos' = WithLatestCommit(hreq[h].repo, hreq[h].commit)
    /\ hpc' = [hpc EXCEPT ![h] = "check"]
    /\ UNCHANGED <<messageVars, scratchVars, fileVars, deleteVars, cacheVars, staticVars, hybridVars, routeVars, remoteVars, chatVars, indexVars, embedVars, access, runs, queue, storeVars, calls, hreq, responses, workerVars>>

\* step 3, found: the caller needs a RepoAccess row, else 403
CheckAccess(h) ==
    /\ hpc[h] = "check"
    /\ IF <<hreq[h].user, hreq[h].repo>> \in access
       THEN /\ hpc' = [hpc EXCEPT ![h] = "start"]
            /\ UNCHANGED <<hreq, responses>>
       ELSE Respond(h, 403, 0, None)
    /\ UNCHANGED <<messageVars, scratchVars, fileVars, deleteVars, cacheVars, staticVars, hybridVars, routeVars, remoteVars, chatVars, indexVars, embedVars, dbVars, queue, storeVars, calls, workerVars>>

\* IngestionCoordinator.start_ingestion: the run is added PENDING and committed
\* a coordinator that would create the run already started
NewRunStarted(call, repo_id, commit) ==
    [call |-> call, repo_id |-> repo_id, commit_sha |-> commit,
     status |-> "running", error |-> None]

\* the row IngestionRun(...) of start_ingestion; `call` records the call that made it
NewRun(call, repo_id, commit) ==
    [call |-> call, repo_id |-> repo_id, commit_sha |-> commit,
     status |-> "pending", error |-> None]

\* a fresh run id (uuid4)
FreshRunId == Cardinality(DOMAIN runs) + 1

StartIngestion(h) ==
    /\ hpc[h] = "start"
    /\ runs' = runs @@ (FreshRunId :> NewRun(hreq[h].call, hreq[h].repo, hreq[h].commit))
    /\ hreq' = [hreq EXCEPT ![h].run = FreshRunId]
    /\ hpc' = [hpc EXCEPT ![h] = "submit"]
    /\ UNCHANGED <<messageVars, scratchVars, fileVars, deleteVars, cacheVars, staticVars, hybridVars, routeVars, remoteVars, chatVars, indexVars, embedVars, repos, access, queue, storeVars, calls, responses, workerVars>>

\* executor.submit(run.id), then the IngestResponse
SubmitRun(h) ==
    /\ hpc[h] = "submit"
    /\ queue' = queue \cup {hreq[h].run}
    /\ Respond(h, 200, hreq[h].run, "pending")
    /\ UNCHANGED <<messageVars, scratchVars, fileVars, deleteVars, cacheVars, staticVars, hybridVars, routeVars, remoteVars, chatVars, indexVars, embedVars, dbVars, storeVars, calls, workerVars>>

\* executor.submit(run.id) raises, the broker being unreachable: the call ends
\* with an error after the PENDING run was committed
SubmitFails(h) ==
    /\ hpc[h] = "submit"
    /\ Respond(h, 500, 0, None)
    /\ UNCHANGED <<messageVars, scratchVars, fileVars, deleteVars, cacheVars, staticVars, hybridVars, routeVars, remoteVars, chatVars, indexVars, embedVars, dbVars, queue, storeVars, calls, workerVars>>

\* GET /ingest/{run_id}: the run joined with the caller's RepoAccess
IngestionStatus(user, run_id) ==
    IF run_id \in DOMAIN runs /\ <<user, runs[run_id].repo_id>> \in access
    THEN [code |-> 200, status |-> runs[run_id].status, error |-> runs[run_id].error]
    ELSE [code |-> 404, status |-> None, error |-> None]

(* ------------------------------------------------------------------ *)
(* The Celery task trigger_ingestion_pipeline (acks_late=True)         *)
(* ------------------------------------------------------------------ *)

\* the Repository row of a run
RepoOf(run_id) == CHOOSE r \in repos : r.id = runs[run_id].repo_id

\* the (repo_id, commit_sha) partition a run writes into
PartitionOf(run_id) == <<runs[run_id].repo_id, runs[run_id].commit_sha>>


\* StoragePaths.get_artifact_path of a run
ArtifactOf(run_id, kind) == <<RepoOf(run_id).key, runs[run_id].commit_sha, kind>>

\* scratch on local disk: the directory a worker cloned its run into
\* (tempfile.mkdtemp) and /tmp/{repo.id}_{commit_sha}_source.tar.gz
CloneDir(w) == <<"clone", w, wtask[w].run>>
SourceTarball(run_id) == <<"tarball", runs[run_id].repo_id, runs[run_id].commit_sha>>

\* a stage raises: control passes to the except clause with the exception's text
Raise(w, text) ==
    /\ faults < MaxFaults
    /\ faults' = faults + 1
    /\ wpc' = [wpc EXCEPT ![w] = "except"]
    /\ wtask' = [wtask EXCEPT ![w].exc = text]

\* a stage returns: control passes to the next stage
Advance(w, stage) ==
    /\ wpc' = [wpc EXCEPT ![w] = stage]
    /\ UNCHANGED <<wtask, faults>>

\* the broker hands an unacknowledged message to a free worker; with late
\* acknowledgement the message stays unacknowledged until the task returns
Deliver(w) ==
    /\ wpc[w] = "idle"
    /\ \A v \in Workers : wpc[v] = "idle" => w <= v
    /\ deliveries < MaxDeliveries
    /\ \E r \in queue :
         wtask' = [wtask EXCEPT ![w] = [run |-> r, exc |-> None,
                                        path |-> FALSE, broken |-> FALSE]]
    /\ deliveries' = deliveries + 1
    /\ wpc' = [wpc EXCEPT ![w] = "load"]
    /\ UNCHANGED <<messageVars, scratchVars, fileVars, deleteVars, cacheVars, staticVars, hybridVars, routeVars, remoteVars, chatVars, indexVars, embedVars, dbVars, queue, storeVars, handlerVars, faults, started>>

\* 1. fetch the run and its repository, set the run RUNNING and commit
LoadRun(w) ==
    /\ wpc[w] = "load"
    /\ IF wtask[w].run \notin DOMAIN runs
       THEN /\ wpc' = [wpc EXCEPT ![w] = "finally"]
            /\ UNCHANGED <<runs, started>>
       ELSE /\ runs' = [runs EXCEPT ![wtask[w].run].status = "running"]
            /\ started' = started \cup {wtask[w].run}
            /\ wpc' = [wpc EXCEPT ![w] = "clone"]
    /\ UNCHANGED <<messageVars, scratchVars, fileVars, deleteVars, cacheVars, staticVars, hybridVars, routeVars, remoteVars, chatVars, indexVars, embedVars, repos, access, queue, storeVars, handlerVars, deliveries, faults, wtask>>

\* 2. clone the repository at the run's commit
CloneRepo(w) ==
    /\ wpc[w] = "clone"
    /\ \/ /\ wpc' = [wpc EXCEPT ![w] = "index"]
          /\ wtask' = [wtask EXCEPT ![w].path = TRUE]
          /\ disk' = disk \cup {CloneDir(w)}
          /\ UNCHANGED faults
       \/ \* clone_repo removes its directory before it raises again
          /\ Raise(w, "clone failed")
          /\ UNCHANGED disk
    /\ UNCHANGED <<messageVars, fileVars, deleteVars, cacheVars, staticVars, hybridVars, routeVars, remoteVars, chatVars, indexVars, embedVars, dbVars, queue, storeVars, handlerVars, deliveries, started>>

\* 3.5. index the symbols of every file (a file's error, a failed flush
\* included, is swallowed), then commit them
IndexSymbols(w) ==
    /\ wpc[w] = "index"
    /\ \/ /\ symbolRows' = symbolRows \cup {PartitionOf(wtask[w].run)}
          /\ Advance(w, "upload")
       \/ \* a flush failed in some file: the session's transaction is left
          \* rolled back and the commit raises
          /\ faults < MaxFaults
          /\ faults' = faults + 1
          /\ wpc' = [wpc EXCEPT ![w] = "except"]
          /\ wtask' = [wtask EXCEPT ![w].exc = "transaction rolled back", ![w].broken = TRUE]
          /\ UNCHANGED symbolRows
    /\ UNCHANGED <<messageVars, scratchVars, fileVars, deleteVars, cacheVars, staticVars, hybridVars, routeVars, remoteVars, chatVars, indexVars, embedVars, dbVars, queue, relRows, vectors, blobs, handlerVars, deliveries,
                   started>>

\* 3.5.5. tar the clone and upload it as the source_tree artifact
UploadSourceTree(w) ==
    /\ wpc[w] = "upload"
    /\ \/ /\ blobs' = blobs \cup {ArtifactOf(wtask[w].run, "source_tree")}
          /\ disk' = disk \ {SourceTarball(wtask[w].run)}
          /\ Advance(w, "callgraph")
       \/ \* tarfile.open, tar.add or upload_object raises: os.remove is not reached
          \* (nor is the tarball there yet if the commit before it raised)
          /\ Raise(w, "upload failed")
          /\ \/ disk' = disk \cup {SourceTarball(wtask[w].run)}
             \/ UNCHANGED disk
          /\ UNCHANGED blobs
    /\ UNCHANGED <<messageVars, fileVars, deleteVars, cacheVars, staticVars, hybridVars, routeVars, remoteVars, chatVars, indexVars, embedVars, dbVars, queue, symbolRows, relRows, vectors, handlerVars, deliveries,
                   started>>

\* 3.6. build the call graph and the module dependencies, commit the relationships
BuildCallGraph(w) ==
    /\ wpc[w] = "callgraph"
    /\ \/ /\ relRows' = relRows \cup {PartitionOf(wtask[w].run)}
          /\ Advance(w, "embed")
       \/ /\ Raise(w, "call graph failed")
          /\ UNCHANGED relRows
    /\ UNCHANGED <<messageVars, scratchVars, fileVars, deleteVars, cacheVars, staticVars, hybridVars, routeVars, remoteVars, chatVars, indexVars, embedVars, dbVars, queue, symbolRows, vectors, blobs, handlerVars, deliveries,
                   started>>

\* 4. chunk the clone, embed the chunks and upsert them
ChunkAndEmbed(w) ==
    /\ wpc[w] = "embed"
    /\ \/ /\ vectors' = vectors \cup {PartitionOf(wtask[w].run)}
          /\ Advance(w, "artifacts")
       \/ /\ Raise(w, "embedding failed")
          /\ UNCHANGED vectors
    /\ UNCHANGED <<messageVars, scratchVars, fileVars, deleteVars, cacheVars, staticVars, hybridVars, routeVars, remoteVars, chatVars, indexVars, embedVars, dbVars, queue, symbolRows, relRows, blobs, handlerVars, deliveries,
                   started>>

\* an artifact stage that would return without writing the manifest
SaveArtifactsNoManifest(w) ==
    /\ wpc[w] = "artifacts"
    /\ blobs' = blobs \cup {ArtifactOf(wtask[w].run, "graph_data")}
    /\ Advance(w, "complete")
    /\ UNCHANGED <<messageVars, scratchVars, fileVars, deleteVars, cacheVars, staticVars, hybridVars, routeVars, remoteVars, chatVars, indexVars, embedVars, dbVars, queue, symbolRows, relRows, vectors, handlerVars, deliveries,
                   started>>

\* 5. save_artifacts: upload graph_data, then the manifest
SaveArtifacts(w) ==
    /\ wpc[w] = "artifacts"
    /\ \/ /\ blobs' = blobs \cup {ArtifactOf(wtask[w].run, "graph_data"),
                                  ArtifactOf(wtask[w].run, "manifest")}
          /\ Advance(w, "complete")
       \/ /\ Raise(w, "artifact upload failed")
          /\ \/ UNCHANGED blobs
             \/ blobs' = blobs \cup {ArtifactOf(wtask[w].run, "graph_data")}
    /\ UNCHANGED <<messageVars, scratchVars, fileVars, deleteVars, cacheVars, staticVars, hybridVars, routeVars, remoteVars, chatVars, indexVars, embedVars, dbVars, queue, symbolRows, relRows, vectors, handlerVars, deliveries,
                   started>>

\* 6. set the run COMPLETED and commit
CompleteRun(w) ==
    /\ wpc[w] = "complete"
    /\ runs' = [runs EXCEPT ![wtask[w].run].status = "completed"]
    /\ Advance(w, "finally")
    /\ UNCHANGED <<messageVars, scratchVars, fileVars, deleteVars, cacheVars, staticVars, hybridVars, routeVars, remoteVars, chatVars, indexVars, embedVars, repos, access, queue, storeVars, handlerVars, deliveries, started>>

\* a handler that would undo the run's committed index rows
HandleExceptionRollsBack(w) ==
    /\ wpc[w] = "except"
    /\ runs' = [runs EXCEPT ![wtask[w].run].status = "failed",
                            ![wtask[w].run].error = wtask[w].exc]
    /\ symbolRows' = symbolRows \ {PartitionOf(wtask[w].run)}
    /\ relRows' = relRows \ {PartitionOf(wtask[w].run)}
    /\ Advance(w, "finally")
    /\ UNCHANGED <<messageVars, scratchVars, fileVars, deleteVars, cacheVars, staticVars, hybridVars, routeVars, remoteVars, chatVars, indexVars, embedVars, repos, access, queue, vectors, blobs, handlerVars, deliveries, started>>

\* except Exception: set the run FAILED with the error text and commit; a
\* failure of that commit is swallowed
HandleException(w) ==
    /\ wpc[w] = "except"
    /\ IF wtask[w].broken
       THEN UNCHANGED runs
       ELSE runs' = [runs EXCEPT ![wtask[w].run].status = "failed",
                                 ![wtask[w].run].error = wtask[w].exc]
    /\ Advance(w, "finally")
    /\ UNCHANGED <<messageVars, scratchVars, fileVars, deleteVars, cacheVars, staticVars, hybridVars, routeVars, remoteVars, chatVars, indexVars, embedVars, repos, access, queue, storeVars, handlerVars, deliveries, started>>

\* finally: remove the clone, close the session; the task returns and the
\* message is acknowledged
Finally(w) ==
    /\ wpc[w] = "finally"
    /\ queue' = queue \ {wtask[w].run}
    /\ wpc' = [wpc EXCEPT ![w] = "idle"]
    /\ wtask' = [wtask EXCEPT ![w] = NoTask]
    /\ disk' = IF wtask[w].path THEN disk \ {CloneDir(w)} ELSE disk
    /\ UNCHANGED <<messageVars, fileVars, deleteVars, cacheVars, staticVars, hybridVars, routeVars, remoteVars, chatVars, indexVars, embedVars, dbVars, storeVars, handlerVars, deliveries, faults, started>>

\* positions at which the task's run has been set RUNNING by this execution
Executing == {"clone", "index", "upload", "callgraph", "embed", "artifacts", "complete"}

\* an external signal cancels the task: the process is killed where it stands
\* and the message stays unacknowledged, or the signal surfaces as a
\* BaseException, which `except Exception` does not catch: only the finally
\* clause runs and the task ends
Cancel(w) ==
    /\ wpc[w] \in Executing
    /\ faults < MaxFaults
    /\ faults' = faults + 1
    /\ \/ UNCHANGED queue
       \/ queue' = queue \ {wtask[w].run}
    /\ wpc' = [wpc EXCEPT ![w] = "idle"]
    /\ wtask' = [wtask EXCEPT ![w] = NoTask]
    /\ UNCHANGED <<messageVars, scratchVars, fileVars, deleteVars, cacheVars, staticVars, hybridVars, routeVars, remoteVars, chatVars, indexVars, embedVars, dbVars, storeVars, handlerVars, deliveries, started>>

\* one whole call of ingest_repository, run without interruption
IngestCall ==
    /\ calls < MaxCalls
    /\ calls' = calls + 1
    /\ \E user \in Choices(Users, UsedUsers), url \in Urls,
          commit \in Choices(Commits, UsedCommits) :
         LET call == calls + 1 IN
         IF ParseUrlFails(url)
         THEN /\ responses' = responses @@ (call :> Response(None, None, None, 400, 0, 0, None))
              /\ UNCHANGED <<repos, access, runs, queue>>
         ELSE LET key == RepoKey(url)
                  found == FindRepo(key)
              IN  IF found = {}
                  THEN /\ repos' = repos \cup {NewRepo(call, key, commit)}
                       /\ access' = access \cup {<<user, call>>}
                       /\ runs' = runs @@ (FreshRunId :> NewRun(call, call, commit))
                       /\ queue' = queue \cup {FreshRunId}
                       /\ responses' = responses @@
                            (call :> Response(user, commit, key, 200, FreshRunId, call, "pending"))
                  ELSE LET id == (CHOOSE r \in found : TRUE).id IN
                       /\ repos' = WithLatestCommit(id, commit)
                       /\ UNCHANGED access
                       /\ IF <<user, id>> \in access
                          THEN /\ runs' = runs @@ (FreshRunId :> NewRun(call, id, commit))
                               /\ queue' = queue \cup {FreshRunId}
                               /\ responses' = responses @@
                                    (call :> Response(user, commit, key, 200, FreshRunId, id,
                                                      "pending"))
                          ELSE /\ responses' = responses @@
                                    (call :> Response(user, commit, key, 403, 0, 0, None))
                               /\ UNCHANGED <<runs, queue>>
    /\ UNCHANGED <<messageVars, scratchVars, fileVars, deleteVars, cacheVars, staticVars, hybridVars, routeVars, remoteVars, chatVars, indexVars, embedVars, hpc, hreq, storeVars, workerVars>>

\* a worker receives a submitted task and begins it: the run is set RUNNING
StartTask ==
    /\ \E r \in queue :
         /\ r \in DOMAIN runs
         /\ r \notin started
         /\ runs' = [runs EXCEPT ![r].status = "running"]
         /\ started' = started \cup {r}
    /\ UNCHANGED <<messageVars, scratchVars, fileVars, deleteVars, cacheVars, staticVars, hybridVars, routeVars, remoteVars, chatVars, indexVars, embedVars, repos, access, queue, storeVars, handlerVars, deliveries, faults, wpc, wtask>>

(* ------------------------------------------------------------------ *)
(* The embed stage: chunk_repository, then process_embeddings_local    *)
(* (backend) or process_embeddings_async (backend_v2)                  *)
(* ------------------------------------------------------------------ *)

\* lines per chunk and lines shared by consecutive chunks
ChunkSize == 60
Overlap == 10

\* points sent per upsert by the local stage, chunks per window of the remote stage
UpsertBatch == 100
DbBatchSize == 50

SupportedExtensions ==
    {".py", ".js", ".ts", ".tsx", ".jsx", ".go", ".rs", ".java", ".c", ".cpp", ".md", ".txt"}

\* line counts on either side of the chunker's cases
LineCounts == {0, 1, ChunkSize, ChunkSize + 1, MaxLines}

\* files of a clone: n lines, of which the first b are not blank
SourceFiles(name, exts) ==
    {f \in [name : {name}, ext : exts, n : LineCounts, b : LineCounts] : f.b <= f.n}

\* the clones considered: one file, or two
Trees ==
    LET first == SourceFiles("main", {".py"})
        second == SourceFiles("lib/util", {".js", ".png"})
    IN  {<<f>> : f \in first} \cup {<<f, g>> : f \in first, g \in second}

RelPath(f) == f.name \o f.ext

Min(a, b) == IF a < b THEN a ELSE b

\* the chunks of one file: a file of at most ChunkSize lines is one chunk; a longer
\* one is cut every ChunkSize - Overlap lines, windows of blank lines dropped
ChunkFile(f) ==
    IF f.ext \notin SupportedExtensions \/ f.n = 0
    THEN <<>>
    ELSE IF f.n <= ChunkSize
    THEN << [file_path |-> RelPath(f), start_line |-> 1, end_line |-> f.n] >>
    ELSE LET step == ChunkSize - Overlap
             count == ((f.n - 1) \div step) + 1
             window(k) == LET i == (k - 1) * step IN
                          [file_path |-> RelPath(f), start_line |-> i + 1,
                           end_line |-> i + (Min(i + ChunkSize, f.n) - i)]
         IN  SelectSeq([k \in 1..count |-> window(k)], LAMBDA c : c.start_line <= f.b)

RECURSIVE ChunkRepository(_)
ChunkRepository(tree) ==
    IF tree = <<>> THEN <<>> ELSE ChunkFile(Head(tree)) \o ChunkRepository(Tail(tree))

\* f"{repo.id}:{run.commit_sha}:{chunk['file_path']}:{chunk['start_line']}"
UniqueStr(repo_id, commit_sha, file_path, start_line) ==
    repo_id \o ":" \o commit_sha \o ":" \o file_path \o ":" \o ToString(start_line)

\* the digest of a string; distinct strings are taken to have distinct digests
Sha256Hex(text) == <<"sha256", text>>

\* an id that would also depend on the run that writes the point
VectorIdPerRun(repo_id, commit_sha, file_path, start_line) ==
    <<"uuid", Sha256Hex(UniqueStr(repo_id, commit_sha, file_path, start_line)
                          \o ":" \o ToString(Len(estage.done)))>>

\* the local stage's point id: the first 32 hex digits of the digest, written as
\* a UUID (distinct digests are taken to differ in their first 32 digits)
VectorIdLocal(repo_id, commit_sha, file_path, start_line) ==
    <<"uuid", Sha256Hex(UniqueStr(repo_id, commit_sha, file_path, start_line))>>

\* the remote stage's point id: the whole hex digest
VectorIdAsync(repo_id, commit_sha, file_path, start_line) ==
    Sha256Hex(UniqueStr(repo_id, commit_sha, file_path, start_line))

VectorId(embedder, repo_id, commit_sha, file_path, start_line) ==
    IF embedder = "local"
    THEN VectorIdLocal(repo_id, commit_sha, file_path, start_line)
    ELSE VectorIdAsync(repo_id, commit_sha, file_path, start_line)

\* the point built for a chunk
PointOf(chunk) ==
    [id |-> VectorId(estage.embedder, estage.repo_id, estage.commit_sha,
                     chunk.file_path, chunk.start_line),
     payload |-> [repo_id |-> estage.repo_id, commit_sha |-> estage.commit_sha,
                  file_path |-> chunk.file_path, start_line |-> chunk.start_line,
                  end_line |-> chunk.end_line]]

\* VectorStore.upsert_chunks: a point whose id is present is overwritten
UpsertChunks(new) ==
    [id \in DOMAIN points \cup {p.id : p \in new} |->
        IF \E p \in new : p.id = id
        THEN (CHOOSE p \in new : p.id = id).payload
        ELSE points[id]]

\* a completed run of the stage: the ids it embedded and the ids then stored
StageDone(embedded) ==
    estage' = [estage EXCEPT !.done = Append(@, [embedded |-> {p.id : p \in embedded},
                                                 ids |-> DOMAIN points'])]

\* the pipeline has cloned the run's commit; the stage is about to chunk it
CloneForEmbedding ==
    /\ estage.embedder = None
    /\ \E tree \in Trees, embedder \in {"local", "remote"}, c \in 1..Len(Commits) :
         estage' = [estage EXCEPT !.tree = tree, !.embedder = embedder,
                                  !.repo_id = "r1", !.commit_sha = Commits[c]]
    /\ UNCHANGED <<messageVars, scratchVars, fileVars, deleteVars, cacheVars, staticVars, hybridVars, routeVars, remoteVars, chatVars, indexVars, dbVars, queue, storeVars, handlerVars, workerVars, points>>

\* process_embeddings_local over the clone's chunks: every chunk is embedded,
\* points are upserted UpsertBatch at a time and with the last chunk
ProcessEmbeddingsLocal ==
    /\ estage.embedder = "local"
    /\ Len(estage.done) < MaxStageRuns
    /\ LET chunks == ChunkRepository(estage.tree)
           batches == (Len(chunks) + UpsertBatch - 1) \div UpsertBatch
           sent(k) == {PointOf(chunks[i]) : i \in 1..Min(k * UpsertBatch, Len(chunks))}
       IN  IF chunks = <<>>
           THEN /\ UNCHANGED <<points, faults>>
                /\ StageDone({})
           ELSE \/ /\ points' = UpsertChunks(sent(batches))
                   /\ StageDone(sent(batches))
                   /\ UNCHANGED faults
                \/ \* the embedder or an upsert raises: the batches before it are stored
                   /\ faults < MaxFaults
                   /\ faults' = faults + 1
                   /\ \E k \in 0..(batches - 1) : points' = UpsertChunks(sent(k))
                   /\ UNCHANGED estage
    /\ UNCHANGED <<messageVars, scratchVars, fileVars, deleteVars, cacheVars, staticVars, hybridVars, routeVars, remoteVars, chatVars, indexVars, dbVars, queue, storeVars, handlerVars, deliveries, wpc, wtask, started>>

\* process_embeddings_async over the clone's chunks, DbBatchSize at a time: a
\* chunk whose embedding request fails is left out, the others are upserted
ProcessEmbeddingsAsync ==
    /\ estage.embedder = "remote"
    /\ Len(estage.done) < MaxStageRuns
    /\ LET chunks == ChunkRepository(estage.tree)
           windows == (Len(chunks) + DbBatchSize - 1) \div DbBatchSize
           valid(k, failed) == {PointOf(chunks[i]) :
                                  i \in (1..Min(k * DbBatchSize, Len(chunks))) \ failed}
       IN  \/ \E failed \in SUBSET (1..Len(chunks)) :
                /\ faults + Cardinality(failed) <= MaxFaults
                /\ faults' = faults + Cardinality(failed)
                /\ points' = UpsertChunks(valid(windows, failed))
                /\ StageDone(valid(windows, failed))
           \/ \* an upsert raises: the windows before it are stored
              /\ chunks # <<>>
              /\ faults < MaxFaults
              /\ faults' = faults + 1
              /\ \E k \in 0..(windows - 1) : points' = UpsertChunks(valid(k, {}))
              /\ UNCHANGED estage
    /\ UNCHANGED <<messageVars, scratchVars, fileVars, deleteVars, cacheVars, staticVars, hybridVars, routeVars, remoteVars, chatVars, indexVars, dbVars, queue, storeVars, handlerVars, deliveries, wpc, wtask, started>>


(* ------------------------------------------------------------------ *)
(* The indexing stages: SymbolIndexer.index_file over every file, then *)
(* CallGraphBuilder.build_call_graph                                   *)
(* ------------------------------------------------------------------ *)

FuncNames == {"f", "g"}

\* the clones considered: one file main.py defining some of the functions,
\* each call written caller -> called name (the called name may be undefined)
Programs ==
    {[defs |-> d, calls |-> c] : d \in SUBSET FuncNames, c \in SUBSET (FuncNames \X FuncNames)}

\* the CodeSymbol built for a function definition; the id is fresh (uuid4)
FunctionSymbol(id, name) ==
    [id |-> id, repo_id |-> istage.repo_id, commit_sha |-> istage.commit_sha,
     symbol_type |-> "function", name |-> name, qualified_name |-> name,
     file_path |-> "main.py"]

\* the rows build_call_graph loads: every symbol of the (repo_id, commit_sha)
LoadedSymbols ==
    {r \in codeSymbols : r.repo_id = istage.repo_id /\ r.commit_sha = istage.commit_sha}

\* a CodeSymbol row without its id, a SymbolRelationship row without its id and
\* with its ends named by the symbols they point to
SymbolShape(r) == [commit_sha |-> r.commit_sha, file_path |-> r.file_path,
                   symbol_type |-> r.symbol_type, qualified_name |-> r.qualified_name]

RelationshipShape(e, symbols) ==
    [commit_sha |-> e.commit_sha, relationship_type |-> e.relationship_type,
     source |-> SymbolShape(CHOOSE r \in symbols : r.id = e.source_id),
     target |-> SymbolShape(CHOOSE r \in symbols : r.id = e.target_id)]

\* what is stored for the commit, ids ignored: how many rows of each shape
StoredIndex(symbols, rels) ==
    LET mine == {r \in symbols : r.commit_sha = istage.commit_sha}
        edges == {e \in rels : e.commit_sha = istage.commit_sha}
    IN  [symbols |-> [sh \in {SymbolShape(r) : r \in mine} |->
                         Cardinality({r \in mine : SymbolShape(r) = sh})],
         relationships |-> [sh \in {RelationshipShape(e, symbols) : e \in edges} |->
                         Cardinality({e \in edges : RelationshipShape(e, symbols) = sh})]]

\* the pipeline has cloned the run's commit; symbol indexing is about to start
CloneForIndexing ==
    /\ istage.phase = None
    /\ \E program \in Programs, c \in 1..Len(Commits) :
         /\ program.calls \subseteq program.defs \X FuncNames
         /\ istage' = [istage EXCEPT !.program = program, !.repo_id = "r1",
                                     !.commit_sha = Commits[c], !.phase = "index"]
    /\ UNCHANGED <<messageVars, scratchVars, fileVars, deleteVars, cacheVars, staticVars, hybridVars, routeVars, remoteVars, chatVars, coreVars, embedVars, codeSymbols, symbolRels>>

\* stage 3.5: index_file adds one new row per definition, whatever is stored
RunSymbolIndexing ==
    /\ istage.phase = "index"
    /\ Len(istage.done) < MaxIndexRuns
    /\ codeSymbols' = codeSymbols \cup
         {FunctionSymbol(<<Len(istage.done) + 1, name>>, name) : name \in istage.program.defs}
    /\ istage' = [istage EXCEPT !.phase = "callgraph"]
    /\ UNCHANGED <<messageVars, scratchVars, fileVars, deleteVars, cacheVars, staticVars, hybridVars, routeVars, remoteVars, chatVars, coreVars, embedVars, symbolRels>>

\* stage 3.6: build_call_graph loads every symbol of the commit, caches one
\* symbol per name (the rows come in no stated order) and adds one new row
\* per call of each loaded function whose called name resolves
RunCallGraphBuilder ==
    /\ istage.phase = "callgraph"
    /\ LET symbols == LoadedSymbols
           names == {r.qualified_name : r \in symbols}
       IN  \E cache \in [names -> symbols] :
             /\ \A n \in names : cache[n].qualified_name = n
             /\ symbolRels' = symbolRels \cup
                  {[id |-> <<Len(istage.done) + 1, rc[1].id, rc[2][2]>>,
                    repo_id |-> istage.repo_id, commit_sha |-> istage.commit_sha,
                    source_id |-> rc[1].id, target_id |-> cache[rc[2][2]].id,
                    relationship_type |-> "calls"] :
                     rc \in {x \in symbols \X istage.program.calls :
                                x[2][1] = x[1].qualified_name /\ x[2][2] \in names}}
    /\ istage' = [istage EXCEPT !.phase = "index",
                                !.done = Append(@, StoredIndex(codeSymbols, symbolRels'))]
    /\ UNCHANGED <<messageVars, scratchVars, fileVars, deleteVars, cacheVars, staticVars, hybridVars, routeVars, remoteVars, chatVars, coreVars, embedVars, codeSymbols>>

(* ------------------------------------------------------------------ *)
(* Chat: create_session and ChatService.process_message                *)
(* ------------------------------------------------------------------ *)

\* target_commit = request.commit_sha or repo.latest_commit_sha
TargetCommit(requested, repo) ==
    IF requested # None THEN requested ELSE repo.latest_commit_sha

\* POST /chat/sessions: a session on an existing repository, pinned to the
\* requested commit or else to the repository's latest commit at this moment.
\* `requested` and `latest` record what the call was given.
CreateSession ==
    /\ Len(sessions) < MaxSessions
    /\ \E user \in {Users[i] : i \in 1..Len(Users)}, repo \in repos,
          requested \in {None} \cup {Commits[i] : i \in 1..Len(Commits)} :
         /\ TargetCommit(requested, repo) # None
         /\ sessions' = Append(sessions,
                               [user |-> user, repo_id |-> repo.id,
                                commit_sha |-> TargetCommit(requested, repo),
                                requested |-> requested,
                                latest |-> repo.latest_commit_sha])
    /\ UNCHANGED <<messageVars, scratchVars, fileVars, deleteVars, cacheVars, staticVars, hybridVars, routeVars, remoteVars, coreVars, embedVars, indexVars, answers>>

\* a query context that would follow the repository's latest commit
QueryContextLatest(session_id) ==
    LET repo == CHOOSE r \in repos : r.id = sessions[session_id].repo_id
    IN  <<repo.id, repo.latest_commit_sha>>

\* the (repo_id, commit_sha) process_message hands to the query engines
QueryContext(session_id) ==
    <<sessions[session_id].repo_id, sessions[session_id].commit_sha>>

(* ------------------------------------------------------------------ *)
(* Remote embedding: RateLimiter, embed_single_chunk and               *)
(* call_gemini_api_with_retry                                          *)
(* ------------------------------------------------------------------ *)

\* values of the Retry-After header of a 429: absent, a number of seconds,
\* or an HTTP date
HttpDate == "Sun, 01 Nov 2026 00:00:30 GMT"
RetryAfterHeaders == {None, "1", HttpDate}

\* float(retry_after); -1 stands for ValueError
FloatOf(h) ==
    IF h = "1" THEN 1 ELSE -1

NoResponse == [status |-> 0, header |-> None]
NetworkError == [status |-> -1, header |-> None]
Responses ==
    {[status |-> 200, header |-> None], [status |-> 500, header |-> None],
     NetworkError}
    \cup {[status |-> 429, header |-> h] : h \in RetryAfterHeaders}

\* 2 ** n
RECURSIVE Pow2(_)
Pow2(n) == IF n = 0 THEN 1 ELSE 2 * Pow2(n - 1)

\* the sleep after a 429: Retry-After when the header is there, else
\* 20 * 2 ** attempt
RetryWait(header, attempt) ==
    IF header # None THEN FloatOf(header) ELSE BackoffBase * Pow2(attempt)

\* requests answered with something other than 200 so far
BadResponses ==
    Cardinality({i \in DOMAIN requests : requests[i].response.status \notin {0, 200}})

\* client.post: one outbound request, sent now
Post(chunk, attempt, limited) ==
    Append(requests, [chunk |-> chunk, attempt |-> attempt, time |-> now,
                      limited |-> limited, response |-> NoResponse])

\* the coroutine of a chunk returns: a point for the chunk, or None
Return(s, result) ==
    /\ ecall' = [ecall EXCEPT ![s] = IdleCall]
    /\ rrun' = [rrun EXCEPT !.results[ecall[s].chunk] = result]

\* trigger_ingestion_pipeline reaches the bridge with the chunks of the clone
StartRemoteEmbedding ==
    /\ rrun.phase = None
    /\ \E total \in 1..MaxRemoteChunks :
         rrun' = [rrun EXCEPT !.phase = "embedding", !.total = total,
                              !.results = [c \in 1..total |-> "pending"]]
    /\ UNCHANGED <<messageVars, scratchVars, fileVars, deleteVars, cacheVars, staticVars, hybridVars, routeVars, coreVars, embedVars, indexVars, chatVars, now, limiter, ecall, requests>>

\* async with sem: the next task of the gather enters the semaphore
EnterSemaphore(s) ==
    /\ rrun.phase = "embedding"
    /\ rrun.started < rrun.total
    /\ ecall[s].pc = "idle"
    /\ \A t \in Slots : ecall[t].pc = "idle" => s <= t
    /\ ecall' = [ecall EXCEPT ![s] = [IdleCall EXCEPT !.pc = "limiter",
                                                       !.chunk = rrun.started + 1]]
    /\ rrun' = [rrun EXCEPT !.started = @ + 1]
    /\ UNCHANGED <<messageVars, scratchVars, fileVars, deleteVars, cacheVars, staticVars, hybridVars, routeVars, coreVars, embedVars, indexVars, chatVars, now, limiter, requests>>

\* wait_for_slot up to its sleep: with the lock free, either the slot is free
\* now (the first request goes out at once) or the caller sleeps holding the lock
WaitForSlot(s) ==
    /\ ecall[s].pc = "limiter"
    /\ limiter.lock = 0
    /\ LET elapsed == now - limiter.last_request_time
       IN  IF elapsed < DelayBetweenRequests
           THEN /\ limiter' = [limiter EXCEPT !.lock = s]
                /\ ecall' = [ecall EXCEPT ![s].pc = "slot_sleep",
                                          ![s].wake = now + (DelayBetweenRequests - elapsed)]
                /\ UNCHANGED requests
           ELSE /\ limiter' = [limiter EXCEPT !.last_request_time = now]
                /\ requests' = Post(ecall[s].chunk, 0, TRUE)
                /\ ecall' = [ecall EXCEPT ![s].pc = "inflight",
                                          ![s].req = Len(requests) + 1]
    /\ UNCHANGED <<messageVars, scratchVars, fileVars, deleteVars, cacheVars, staticVars, hybridVars, routeVars, coreVars, embedVars, indexVars, chatVars, now, rrun>>

\* wait_for_slot after its sleep: the slot is taken, the lock released and
\* the first request goes out
SlotTaken(s) ==
    /\ ecall[s].pc = "slot_sleep"
    /\ now >= ecall[s].wake
    /\ limiter' = [last_request_time |-> now, lock |-> 0]
    /\ requests' = Post(ecall[s].chunk, 0, TRUE)
    /\ ecall' = [ecall EXCEPT ![s].pc = "inflight", ![s].req = Len(requests) + 1]
    /\ UNCHANGED <<messageVars, scratchVars, fileVars, deleteVars, cacheVars, staticVars, hybridVars, routeVars, coreVars, embedVars, indexVars, chatVars, now, rrun>>

\* the response to the request in flight: 200 gives the embedding; 429 sleeps
\* Retry-After or the backoff; another status or an exception gives None
ReceiveResponse(s) ==
    /\ ecall[s].pc = "inflight"
    /\ \E response \in Responses :
         /\ response.status # 200 => BadResponses < MaxBadResponses
         /\ requests' = [requests EXCEPT ![ecall[s].req].response = response]
         /\ IF response.status = 200
            THEN Return(s, "vector")
            ELSE IF response.status = 429 /\ RetryWait(response.header, ecall[s].attempt) >= 0
            THEN /\ ecall' = [ecall EXCEPT ![s].pc = "backoff",
                                           ![s].wake = now + RetryWait(response.header,
                                                                       ecall[s].attempt)]
                 /\ UNCHANGED rrun
            ELSE Return(s, "none")
    /\ UNCHANGED <<messageVars, scratchVars, fileVars, deleteVars, cacheVars, staticVars, hybridVars, routeVars, coreVars, embedVars, indexVars, chatVars, now, limiter>>

\* the sleep after a 429 is over: the next attempt posts at once, or the loop
\* is exhausted and the call returns None
Retry(s) ==
    /\ ecall[s].pc = "backoff"
    /\ now >= ecall[s].wake
    /\ IF ecall[s].attempt + 1 < MaxRetries
       THEN /\ requests' = Post(ecall[s].chunk, ecall[s].attempt + 1, FALSE)
            /\ ecall' = [ecall EXCEPT ![s].pc = "inflight", ![s].attempt = @ + 1,
                                      ![s].req = Len(requests) + 1]
            /\ UNCHANGED rrun
       ELSE /\ Return(s, "none")
            /\ UNCHANGED requests
    /\ UNCHANGED <<messageVars, scratchVars, fileVars, deleteVars, cacheVars, staticVars, hybridVars, routeVars, coreVars, embedVars, indexVars, chatVars, now, limiter>>

\* the clock runs to the end of the sleep that ends first
Sleep ==
    /\ \E s \in Slots :
         /\ ecall[s].pc \in {"slot_sleep", "backoff"}
         /\ ecall[s].wake > now
         /\ ecall[s].wake <= ProcessStart + MaxElapsed
         /\ \A t \in Slots : ecall[t].pc \in {"slot_sleep", "backoff"} /\ ecall[t].wake > now
                               => ecall[s].wake <= ecall[t].wake
         /\ now' = ecall[s].wake
    /\ UNCHANGED <<messageVars, scratchVars, fileVars, deleteVars, cacheVars, staticVars, hybridVars, routeVars, coreVars, embedVars, indexVars, chatVars, limiter, ecall, requests, rrun>>

\* the gather is over: the points of the chunks that have one are upserted,
\* the artifacts saved and the run completed
FinishRemoteRun ==
    /\ rrun.phase = "embedding"
    /\ \A c \in 1..rrun.total : rrun.results[c] # "pending"
    /\ rrun' = [rrun EXCEPT !.phase = "done", !.status = "completed",
                            !.stored = Cardinality({c \in 1..rrun.total :
                                                      rrun.results[c] = "vector"})]
    /\ UNCHANGED <<messageVars, scratchVars, fileVars, deleteVars, cacheVars, staticVars, hybridVars, routeVars, coreVars, embedVars, indexVars, chatVars, now, limiter, ecall, requests>>

(* ------------------------------------------------------------------ *)
(* Query router: QueryRouter.classify_query                            *)
(* ------------------------------------------------------------------ *)

\* text is a sequence of characters
LowerLetters == {"a", "b", "c", "d", "e", "f", "g", "h", "i", "j", "k", "l", "m", "n", "o", "p", "q", "r", "s", "t", "u", "v", "w", "x", "y", "z"}
UpperLetters == {"A", "B", "C", "D", "E", "F", "G", "H", "I", "J", "K", "L", "M", "N", "O", "P", "Q", "R", "S", "T", "U", "V", "W", "X", "Y", "Z"}
Digits == {"0", "1", "2", "3", "4", "5", "6", "7", "8", "9"}
SpaceChars == {" ", "\t"}
QuoteChars == {"'", "\""}

\* str.lower() on one character
LowerChar(c) ==
    CASE c = "A" -> "a"
      [] c = "B" -> "b"
      [] c = "C" -> "c"
      [] c = "D" -> "d"
      [] c = "E" -> "e"
      [] c = "F" -> "f"
      [] c = "G" -> "g"
      [] c = "H" -> "h"
      [] c = "I" -> "i"
      [] c = "J" -> "j"
      [] c = "K" -> "k"
      [] c = "L" -> "l"
      [] c = "M" -> "m"
      [] c = "N" -> "n"
      [] c = "O" -> "o"
      [] c = "P" -> "p"
      [] c = "Q" -> "q"
      [] c = "R" -> "r"
      [] c = "S" -> "s"
      [] c = "T" -> "t"
      [] c = "U" -> "u"
      [] c = "V" -> "v"
      [] c = "W" -> "w"
      [] c = "X" -> "x"
      [] c = "Y" -> "y"
      [] c = "Z" -> "z"
      [] OTHER -> c


Lower(text) == [i \in DOMAIN text |-> LowerChar(text[i])]

\* str.strip()
RECURSIVE Strip(_)
Strip(text) ==
    IF text = <<>> THEN text
    ELSE IF text[1] \in SpaceChars THEN Strip(Tail(text))
    ELSE IF text[Len(text)] \in SpaceChars THEN Strip(SubSeq(text, 1, Len(text) - 1))
    ELSE text

\* keyword in text
Contains(text, keyword) ==
    \E i \in 0..(Len(text) - Len(keyword)) :
        SubSeq(text, i + 1, i + Len(keyword)) = keyword

\* the character classes of the patterns: \s, \w, ['"] and [^'"]
InClass(c, class) ==
    CASE class = "space" -> c \in SpaceChars
      [] class = "word" -> c \in LowerLetters \cup UpperLetters \cup Digits \cup {"_"}
      [] class = "quote" -> c \in QuoteChars
      [] class = "notquote" -> c \notin QuoteChars

\* the positions a pattern can end at when it starts at one of `starts`
\* (a position is the number of characters consumed)
RECURSIVE Ends(_, _, _), SeqEnds(_, _, _, _), PlusEnds(_, _, _, _)
Ends(node, starts, text) ==
    CASE node.k = "lit" ->
           {p + Len(node.s) : p \in {q \in starts :
                /\ q + Len(node.s) <= Len(text)
                /\ SubSeq(text, q + 1, q + Len(node.s)) = node.s}}
      [] node.k = "cls" ->
           {p + 1 : p \in {q \in starts : q < Len(text) /\ InClass(text[q + 1], node.c)}}
      [] node.k = "opt" -> starts \cup Ends(node.n, starts, text)
      [] node.k = "alt" ->
           UNION {Ends(node.ns[i], starts, text) : i \in DOMAIN node.ns}
      [] node.k = "seq" -> SeqEnds(node.ns, 1, starts, text)
      [] node.k = "plus" -> PlusEnds(node.n, Ends(node.n, starts, text), {}, text)

SeqEnds(nodes, i, starts, text) ==
    IF i > Len(nodes) \/ starts = {} THEN starts
    ELSE SeqEnds(nodes, i + 1, Ends(nodes[i], starts, text), text)

PlusEnds(node, frontier, seen, text) ==
    IF frontier \subseteq seen THEN seen
    ELSE PlusEnds(node, Ends(node, frontier \ seen, text), seen \cup frontier, text)

\* re.search(pattern, text): the pattern matches somewhere in the text
Search(pattern, text) == Ends(pattern, 0..Len(text), text) # {}

STATIC_PATTERNS == <<
    [pattern |-> [k |-> "seq", ns |-> <<[k |-> "lit", s |-> <<"f", "i", "n", "d">>], [k |-> "plus", n |-> [k |-> "cls", c |-> "space"]], [k |-> "alt", ns |-> <<[k |-> "lit", s |-> <<"f", "u", "n", "c", "t", "i", "o", "n">>], [k |-> "lit", s |-> <<"c", "l", "a", "s", "s">>], [k |-> "lit", s |-> <<"m", "e", "t", "h", "o", "d">>], [k |-> "lit", s |-> <<"v", "a", "r", "i", "a", "b", "l", "e">>]>>], [k |-> "plus", n |-> [k |-> "cls", c |-> "space"]], [k |-> "opt", n |-> [k |-> "cls", c |-> "quote"]], [k |-> "plus", n |-> [k |-> "cls", c |-> "word"]], [k |-> "opt", n |-> [k |-> "cls", c |-> "quote"]]>>],
     intent |-> "find_symbol"],
    [pattern |-> [k |-> "seq", ns |-> <<[k |-> "lit", s |-> <<"s", "h", "o", "w">>], [k |-> "plus", n |-> [k |-> "cls", c |-> "space"]], [k |-> "opt", n |-> [k |-> "seq", ns |-> <<[k |-> "lit", s |-> <<"m", "e">>], [k |-> "plus", n |-> [k |-> "cls", c |-> "space"]]>>]], [k |-> "opt", n |-> [k |-> "seq", ns |-> <<[k |-> "lit", s |-> <<"a", "l", "l">>], [k |-> "plus", n |-> [k |-> "cls", c |-> "space"]]>>]], [k |-> "alt", ns |-> <<[k |-> "lit", s |-> <<"f", "u", "n", "c", "t", "i", "o", "n", "s">>], [k |-> "lit", s |-> <<"c", "l", "a", "s", "s", "e", "s">>], [k |-> "lit", s |-> <<"m", "e", "t", "h", "o", "d", "s">>]>>], [k |-> "plus", n |-> [k |-> "cls", c |-> "space"]], [k |-> "alt", ns |-> <<[k |-> "lit", s |-> <<"i", "n">>], [k |-> "lit", s |-> <<"f", "r", "o", "m">>]>>], [k |-> "plus", n |-> [k |-> "cls", c |-> "space"]], [k |-> "opt", n |-> [k |-> "cls", c |-> "quote"]], [k |-> "plus", n |-> [k |-> "cls", c |-> "word"]], [k |-> "opt", n |-> [k |-> "cls", c |-> "quote"]]>>],
     intent |-> "list_symbols"],
    [pattern |-> [k |-> "seq", ns |-> <<[k |-> "lit", s |-> <<"w", "h", "e", "r", "e">>], [k |-> "plus", n |-> [k |-> "cls", c |-> "space"]], [k |-> "lit", s |-> <<"i", "s">>], [k |-> "plus", n |-> [k |-> "cls", c |-> "space"]], [k |-> "opt", n |-> [k |-> "cls", c |-> "quote"]], [k |-> "plus", n |-> [k |-> "cls", c |-> "word"]], [k |-> "opt", n |-> [k |-> "cls", c |-> "quote"]], [k |-> "plus", n |-> [k |-> "cls", c |-> "space"]], [k |-> "lit", s |-> <<"d", "e", "f", "i", "n", "e", "d">>]>>],
     intent |-> "find_symbol"],
    [pattern |-> [k |-> "seq", ns |-> <<[k |-> "lit", s |-> <<"l", "i", "s", "t">>], [k |-> "plus", n |-> [k |-> "cls", c |-> "space"]], [k |-> "opt", n |-> [k |-> "seq", ns |-> <<[k |-> "lit", s |-> <<"a", "l", "l">>], [k |-> "plus", n |-> [k |-> "cls", c |-> "space"]]>>]], [k |-> "alt", ns |-> <<[k |-> "lit", s |-> <<"f", "u", "n", "c", "t", "i", "o", "n", "s">>], [k |-> "lit", s |-> <<"c", "l", "a", "s", "s", "e", "s">>], [k |-> "lit", s |-> <<"e", "n", "d", "p", "o", "i", "n", "t", "s">>]>>]>>],
     intent |-> "list_symbols"],
    [pattern |-> [k |-> "seq", ns |-> <<[k |-> "alt", ns |-> <<[k |-> "lit", s |-> <<"w", "h", "o">>], [k |-> "lit", s |-> <<"w", "h", "a", "t">>]>>], [k |-> "plus", n |-> [k |-> "cls", c |-> "space"]], [k |-> "lit", s |-> <<"c", "a", "l", "l", "s">>], [k |-> "plus", n |-> [k |-> "cls", c |-> "space"]], [k |-> "opt", n |-> [k |-> "cls", c |-> "quote"]], [k |-> "plus", n |-> [k |-> "cls", c |-> "word"]], [k |-> "opt", n |-> [k |-> "cls", c |-> "quote"]]>>],
     intent |-> "find_callers"],
    [pattern |-> [k |-> "seq", ns |-> <<[k |-> "lit", s |-> <<"f", "i", "n", "d">>], [k |-> "plus", n |-> [k |-> "cls", c |-> "space"]], [k |-> "opt", n |-> [k |-> "seq", ns |-> <<[k |-> "lit", s |-> <<"a", "l", "l">>], [k |-> "plus", n |-> [k |-> "cls", c |-> "space"]]>>]], [k |-> "lit", s |-> <<"c", "a", "l", "l", "e", "r", "s">>], [k |-> "plus", n |-> [k |-> "cls", c |-> "space"]], [k |-> "lit", s |-> <<"o", "f">>], [k |-> "plus", n |-> [k |-> "cls", c |-> "space"]], [k |-> "opt", n |-> [k |-> "cls", c |-> "quote"]], [k |-> "plus", n |-> [k |-> "cls", c |-> "word"]], [k |-> "opt", n |-> [k |-> "cls", c |-> "quote"]]>>],
     intent |-> "find_callers"],
    [pattern |-> [k |-> "seq", ns |-> <<[k |-> "lit", s |-> <<"w", "h", "a", "t">>], [k |-> "plus", n |-> [k |-> "cls", c |-> "space"]], [k |-> "opt", n |-> [k |-> "seq", ns |-> <<[k |-> "lit", s |-> <<"d", "o", "e", "s">>], [k |-> "plus", n |-> [k |-> "cls", c |-> "space"]]>>]], [k |-> "opt", n |-> [k |-> "cls", c |-> "quote"]], [k |-> "plus", n |-> [k |-> "cls", c |-> "word"]], [k |-> "opt", n |-> [k |-> "cls", c |-> "quote"]], [k |-> "plus", n |-> [k |-> "cls", c |-> "space"]], [k |-> "lit", s |-> <<"c", "a", "l", "l">>]>>],
     intent |-> "find_callees"],
    [pattern |-> [k |-> "seq", ns |-> <<[k |-> "lit", s |-> <<"s", "h", "o", "w">>], [k |-> "plus", n |-> [k |-> "cls", c |-> "space"]], [k |-> "lit", s |-> <<"c", "a", "l", "l">>], [k |-> "plus", n |-> [k |-> "cls", c |-> "space"]], [k |-> "alt", ns |-> <<[k |-> "lit", s |-> <<"c", "h", "a", "i", "n">>], [k |-> "lit", s |-> <<"p", "a", "t", "h">>]>>], [k |-> "plus", n |-> [k |-> "cls", c |-> "space"]], [k |-> "lit", s |-> <<"f", "r", "o", "m">>], [k |-> "plus", n |-> [k |-> "cls", c |-> "space"]], [k |-> "opt", n |-> [k |-> "cls", c |-> "quote"]], [k |-> "plus", n |-> [k |-> "cls", c |-> "word"]], [k |-> "opt", n |-> [k |-> "cls", c |-> "quote"]], [k |-> "plus", n |-> [k |-> "cls", c |-> "space"]], [k |-> "lit", s |-> <<"t", "o">>], [k |-> "plus", n |-> [k |-> "cls", c |-> "space"]], [k |-> "opt", n |-> [k |-> "cls", c |-> "quote"]], [k |-> "plus", n |-> [k |-> "cls", c |-> "word"]], [k |-> "opt", n |-> [k |-> "cls", c |-> "quote"]]>>],
     intent |-> "find_call_path"],
    [pattern |-> [k |-> "seq", ns |-> <<[k |-> "lit", s |-> <<"f", "i", "n", "d">>], [k |-> "plus", n |-> [k |-> "cls", c |-> "space"]], [k |-> "opt", n |-> [k |-> "seq", ns |-> <<[k |-> "lit", s |-> <<"a", "l", "l">>], [k |-> "plus", n |-> [k |-> "cls", c |-> "space"]]>>]], [k |-> "lit", s |-> <<"f", "u", "n", "c", "t", "i", "o", "n", "s">>], [k |-> "plus", n |-> [k |-> "cls", c |-> "space"]], [k |-> "lit", s |-> <<"r", "e", "a", "c", "h", "a", "b", "l", "e">>], [k |-> "plus", n |-> [k |-> "cls", c |-> "space"]], [k |-> "lit", s |-> <<"f", "r", "o", "m">>], [k |-> "plus", n |-> [k |-> "cls", c |-> "space"]], [k |-> "opt", n |-> [k |-> "cls", c |-> "quote"]], [k |-> "plus", n |-> [k |-> "cls", c |-> "word"]], [k |-> "opt", n |-> [k |-> "cls", c |-> "quote"]]>>],
     intent |-> "find_reachable"],
    [pattern |-> [k |-> "seq", ns |-> <<[k |-> "lit", s |-> <<"w", "h", "a", "t">>], [k |-> "plus", n |-> [k |-> "cls", c |-> "space"]], [k |-> "opt", n |-> [k |-> "seq", ns |-> <<[k |-> "lit", s |-> <<"d", "o", "e", "s">>], [k |-> "plus", n |-> [k |-> "cls", c |-> "space"]]>>]], [k |-> "opt", n |-> [k |-> "cls", c |-> "quote"]], [k |-> "plus", n |-> [k |-> "cls", c |-> "notquote"]], [k |-> "opt", n |-> [k |-> "cls", c |-> "quote"]], [k |-> "plus", n |-> [k |-> "cls", c |-> "space"]], [k |-> "lit", s |-> <<"i", "m", "p", "o", "r", "t">>]>>],
     intent |-> "find_imports"],
    [pattern |-> [k |-> "seq", ns |-> <<[k |-> "alt", ns |-> <<[k |-> "lit", s |-> <<"s", "h", "o", "w">>], [k |-> "lit", s |-> <<"f", "i", "n", "d">>]>>], [k |-> "plus", n |-> [k |-> "cls", c |-> "space"]], [k |-> "lit", s |-> <<"d", "e", "p", "e", "n", "d", "e", "n", "c", "i", "e", "s">>], [k |-> "plus", n |-> [k |-> "cls", c |-> "space"]], [k |-> "lit", s |-> <<"o", "f">>], [k |-> "plus", n |-> [k |-> "cls", c |-> "space"]], [k |-> "opt", n |-> [k |-> "cls", c |-> "quote"]], [k |-> "plus", n |-> [k |-> "cls", c |-> "notquote"]], [k |-> "opt", n |-> [k |-> "cls", c |-> "quote"]]>>],
     intent |-> "find_dependencies"],
    [pattern |-> [k |-> "seq", ns |-> <<[k |-> "lit", s |-> <<"w", "h", "a", "t">>], [k |-> "plus", n |-> [k |-> "cls", c |-> "space"]], [k |-> "lit", s |-> <<"i", "m", "p", "o", "r", "t", "s">>], [k |-> "plus", n |-> [k |-> "cls", c |-> "space"]], [k |-> "opt", n |-> [k |-> "cls", c |-> "quote"]], [k |-> "plus", n |-> [k |-> "cls", c |-> "notquote"]], [k |-> "opt", n |-> [k |-> "cls", c |-> "quote"]]>>],
     intent |-> "find_importers"],
    [pattern |-> [k |-> "seq", ns |-> <<[k |-> "lit", s |-> <<"d", "e", "t", "e", "c", "t">>], [k |-> "plus", n |-> [k |-> "cls", c |-> "space"]], [k |-> "lit", s |-> <<"c", "i", "r", "c", "u", "l", "a", "r">>], [k |-> "plus", n |-> [k |-> "cls", c |-> "space"]], [k |-> "lit", s |-> <<"d", "e", "p", "e", "n", "d", "e", "n", "c", "i", "e", "s">>]>>],
     intent |-> "detect_circular"],
    [pattern |-> [k |-> "seq", ns |-> <<[k |-> "lit", s |-> <<"l", "i", "s", "t">>], [k |-> "plus", n |-> [k |-> "cls", c |-> "space"]], [k |-> "opt", n |-> [k |-> "seq", ns |-> <<[k |-> "lit", s |-> <<"a", "l", "l">>], [k |-> "plus", n |-> [k |-> "cls", c |-> "space"]]>>]], [k |-> "opt", n |-> [k |-> "seq", ns |-> <<[k |-> "lit", s |-> <<"a", "p", "i">>], [k |-> "plus", n |-> [k |-> "cls", c |-> "space"]]>>]], [k |-> "lit", s |-> <<"e", "n", "d", "p", "o", "i", "n", "t", "s">>]>>],
     intent |-> "list_endpoints"],
    [pattern |-> [k |-> "seq", ns |-> <<[k |-> "lit", s |-> <<"f", "i", "n", "d">>], [k |-> "plus", n |-> [k |-> "cls", c |-> "space"]], [k |-> "opt", n |-> [k |-> "seq", ns |-> <<[k |-> "lit", s |-> <<"a", "l", "l">>], [k |-> "plus", n |-> [k |-> "cls", c |-> "space"]]>>]], [k |-> "lit", s |-> <<"e", "n", "d", "p", "o", "i", "n", "t", "s">>], [k |-> "plus", n |-> [k |-> "cls", c |-> "space"]], [k |-> "lit", s |-> <<"w", "i", "t", "h">>], [k |-> "plus", n |-> [k |-> "cls", c |-> "space"]], [k |-> "plus", n |-> [k |-> "cls", c |-> "word"]]>>],
     intent |-> "find_endpoints_with"],
    [pattern |-> [k |-> "seq", ns |-> <<[k |-> "lit", s |-> <<"s", "h", "o", "w">>], [k |-> "plus", n |-> [k |-> "cls", c |-> "space"]], [k |-> "opt", n |-> [k |-> "seq", ns |-> <<[k |-> "lit", s |-> <<"m", "e">>], [k |-> "plus", n |-> [k |-> "cls", c |-> "space"]]>>]], [k |-> "opt", n |-> [k |-> "seq", ns |-> <<[k |-> "lit", s |-> <<"a", "l", "l">>], [k |-> "plus", n |-> [k |-> "cls", c |-> "space"]]>>]], [k |-> "lit", s |-> <<"d", "a", "t", "a", "b", "a", "s", "e">>], [k |-> "plus", n |-> [k |-> "cls", c |-> "space"]], [k |-> "lit", s |-> <<"a", "c", "c", "e", "s", "s">>]>>],
     intent |-> "find_database_access"],
    [pattern |-> [k |-> "seq", ns |-> <<[k |-> "lit", s |-> <<"f", "i", "n", "d">>], [k |-> "plus", n |-> [k |-> "cls", c |-> "space"]], [k |-> "opt", n |-> [k |-> "seq", ns |-> <<[k |-> "lit", s |-> <<"a", "l", "l">>], [k |-> "plus", n |-> [k |-> "cls", c |-> "space"]]>>]], [k |-> "lit", s |-> <<"e", "r", "r", "o", "r">>], [k |-> "plus", n |-> [k |-> "cls", c |-> "space"]], [k |-> "lit", s |-> <<"h", "a", "n", "d", "l", "e", "r", "s">>]>>],
     intent |-> "find_error_handlers"]>>

SEMANTIC_KEYWORDS == <<
    <<"h", "o", "w">>,
    <<"w", "h", "y">>,
    <<"e", "x", "p", "l", "a", "i", "n">>,
    <<"d", "e", "s", "c", "r", "i", "b", "e">>,
    <<"w", "h", "a", "t", " ", "i", "s">>,
    <<"w", "h", "a", "t", "'", "s">>,
    <<"t", "e", "l", "l", " ", "m", "e", " ", "a", "b", "o", "u", "t">>,
    <<"u", "n", "d", "e", "r", "s", "t", "a", "n", "d">>,
    <<"m", "e", "a", "n", "i", "n", "g">>,
    <<"p", "u", "r", "p", "o", "s", "e">>,
    <<"w", "o", "r", "k">>,
    <<"i", "m", "p", "l", "e", "m", "e", "n", "t">>,
    <<"d", "e", "s", "i", "g", "n">>,
    <<"a", "p", "p", "r", "o", "a", "c", "h">>,
    <<"b", "e", "s", "t", " ", "p", "r", "a", "c", "t", "i", "c", "e">>>>

HYBRID_KEYWORDS == <<
    <<"w", "h", "e", "r", "e", " ", "i", "s">>,
    <<"h", "o", "w", " ", "d", "o", "e", "s">>,
    <<"s", "h", "o", "w", " ", "m", "e", " ", "h", "o", "w">>,
    <<"a", "r", "c", "h", "i", "t", "e", "c", "t", "u", "r", "e">>,
    <<"f", "l", "o", "w">>,
    <<"p", "r", "o", "c", "e", "s", "s">>,
    <<"m", "e", "c", "h", "a", "n", "i", "s", "m">>>>


\* any(keyword in text for keyword in keywords)
AnyKeyword(keywords, text) == \E i \in DOMAIN keywords : Contains(text, keywords[i])

QueryIntent(query_type, primary_intent, confidence) ==
    [query_type |-> query_type, primary_intent |-> primary_intent,
     confidence |-> confidence]

\* the loop over STATIC_PATTERNS from index i: the first pattern that matches,
\* 0 when none does
RECURSIVE FirstStaticMatch(_, _)
FirstStaticMatch(i, text) ==
    IF i > Len(STATIC_PATTERNS) THEN 0
    ELSE IF Search(STATIC_PATTERNS[i].pattern, text) THEN i
    ELSE FirstStaticMatch(i + 1, text)

\* classify_query with the semantic keywords tried before the hybrid ones
ClassifyQuerySemanticFirst(query) ==
    LET query_lower == Strip(Lower(query))
        match == FirstStaticMatch(1, query_lower)
    IN  IF match # 0
        THEN QueryIntent("static", STATIC_PATTERNS[match].intent, 9)
        ELSE IF AnyKeyword(SEMANTIC_KEYWORDS, query_lower)
        THEN QueryIntent("semantic", "semantic_search", 8)
        ELSE IF AnyKeyword(HYBRID_KEYWORDS, query_lower)
        THEN QueryIntent("hybrid", "hybrid_analysis", 7)
        ELSE QueryIntent("hybrid", "general_query", 5)

\* classify_query; the confidence is in tenths, the entities are left out
ClassifyQuery(query) ==
    LET query_lower == Strip(Lower(query))
        match == FirstStaticMatch(1, query_lower)
    IN  IF match # 0
        THEN QueryIntent("static", STATIC_PATTERNS[match].intent, 9)
        ELSE IF AnyKeyword(HYBRID_KEYWORDS, query_lower)
        THEN QueryIntent("hybrid", "hybrid_analysis", 7)
        ELSE IF AnyKeyword(SEMANTIC_KEYWORDS, query_lower)
        THEN QueryIntent("semantic", "semantic_search", 8)
        ELSE QueryIntent("hybrid", "general_query", 5)

\* the phrases queries are made of
Phrases == <<
    <<"F", "i", "n", "d", " ", "f", "u", "n", "c", "t", "i", "o", "n">>,
    <<"f", "o", "o">>,
    <<"W", "h", "e", "r", "e", " ", "i", "s">>,
    <<"d", "e", "f", "i", "n", "e", "d">>,
    <<"l", "i", "s", "t">>,
    <<"e", "n", "d", "p", "o", "i", "n", "t", "s">>,
    <<"H", "o", "w", " ", "d", "o", "e", "s">>,
    <<"w", "o", "r", "k", "f", "l", "o", "w">>,
    <<"e", "x", "p", "l", "a", "i", "n">>>>


\* the queries: up to MaxPhrases phrases, a space between two phrases
RECURSIVE Join(_)
Join(ps) ==
    IF ps = <<>> THEN <<>>
    ELSE IF Len(ps) = 1 THEN Phrases[ps[1]]
    ELSE Phrases[ps[1]] \o <<" ">> \o Join(Tail(ps))

Queries ==
    {Join(ps) : ps \in UNION {[1..n -> DOMAIN Phrases] : n \in 1..MaxPhrases}}

\* a query arrives
AskQuery ==
    /\ route.phase = None
    /\ \E query \in Queries, pad \in {<<>>, <<" ">>} :
         route' = [route EXCEPT !.phase = "asked", !.query = pad \o query \o pad]
    /\ UNCHANGED <<messageVars, scratchVars, fileVars, deleteVars, cacheVars, staticVars, hybridVars, coreVars, embedVars, indexVars, chatVars, remoteVars>>

\* the router classifies it
RouteQuery ==
    /\ route.phase = "asked"
    /\ route' = [route EXCEPT !.phase = "routed", !.intent = ClassifyQuery(route.query)]
    /\ UNCHANGED <<messageVars, scratchVars, fileVars, deleteVars, cacheVars, staticVars, hybridVars, coreVars, embedVars, indexVars, chatVars, remoteVars>>

(* ------------------------------------------------------------------ *)
(* Hybrid query service: HybridQueryService.execute_query              *)
(* ------------------------------------------------------------------ *)

\* formatted answers of the static engine, the generator's text and the
\* message returned when nothing else is left
StaticAnswers == {"Found 1 symbol(s)", "No results found"}
GeneratedText == "generated answer"
GenerationError == "I encountered an error generating a response"

\* a StaticQueryResult; `ran` tells it from static_results = None
StaticResult(success, formatted_answer) ==
    [success |-> success, formatted_answer |-> formatted_answer, ran |-> TRUE]

\* step 1: the query is classified
ClassifyForExecution ==
    /\ hybrid.phase = None
    /\ \E query \in {q \in Queries : Len(q) <= MaxQueryLen} :
         hybrid' = [hybrid EXCEPT !.phase = "static", !.intent = ClassifyQuery(query)]
    /\ UNCHANGED <<messageVars, scratchVars, fileVars, deleteVars, cacheVars, staticVars, coreVars, embedVars, indexVars, chatVars, remoteVars, routeVars>>

\* step 2: static and hybrid queries go to the static engine, which returns a
\* result or raises; an exception leaves static_results None
RunStaticAnalysis ==
    /\ hybrid.phase = "static"
    /\ IF hybrid.intent.query_type \in {"static", "hybrid"}
       THEN \E static \in {NoStatic} \cup
                          {StaticResult(ok, a) : ok \in BOOLEAN, a \in StaticAnswers} :
                hybrid' = [hybrid EXCEPT !.phase = "search", !.static = static]
       ELSE hybrid' = [hybrid EXCEPT !.phase = "search"]
    /\ UNCHANGED <<messageVars, scratchVars, fileVars, deleteVars, cacheVars, staticVars, coreVars, embedVars, indexVars, chatVars, remoteVars, routeVars>>

\* step 3: semantic and hybrid queries go to the vector search; an exception
\* leaves no chunks
RunSemanticSearch ==
    /\ hybrid.phase = "search"
    /\ IF hybrid.intent.query_type \in {"semantic", "hybrid"}
       THEN \E chunks \in 0..1 :
                hybrid' = [hybrid EXCEPT !.phase = "generate", !.chunks = chunks]
       ELSE hybrid' = [hybrid EXCEPT !.phase = "generate"]
    /\ UNCHANGED <<messageVars, scratchVars, fileVars, deleteVars, cacheVars, staticVars, coreVars, embedVars, indexVars, chatVars, remoteVars, routeVars>>

\* _generate_llm_response with a fallback that only reports the error
GenerateLlmResponseNoFallback(static, generator) ==
    IF generator = "ok" THEN GeneratedText ELSE GenerationError

\* _generate_llm_response: the generator's text; when the generator raises,
\* the static answer if there is a successful static result, else the error
GenerateLlmResponse(static, generator) ==
    IF generator = "ok" THEN GeneratedText
    ELSE IF static.ran /\ static.success THEN static.formatted_answer
    ELSE GenerationError

\* steps 4 and 5: the answer is generated and the result returned
GenerateAndReturn ==
    /\ hybrid.phase = "generate"
    /\ \E generator \in {"ok", "raises"} :
         hybrid' = [hybrid EXCEPT !.phase = "returned", !.generator = generator,
                                  !.llm_answer = GenerateLlmResponse(hybrid.static, generator)]
    /\ UNCHANGED <<messageVars, scratchVars, fileVars, deleteVars, cacheVars, staticVars, coreVars, embedVars, indexVars, chatVars, remoteVars, routeVars>>

(* ------------------------------------------------------------------ *)
(* Static queries: SymbolRepository and StaticQueryEngine              *)
(* ------------------------------------------------------------------ *)

\* the functions of an indexed snapshot, and the names a query may give
SymbolNames == {"a", "b", "c"}
QueryNames == SymbolNames \cup {"zz"}

\* pg_trgm: the trigrams of a name (two blanks before it, one after)
Trigrams(name) ==
    CASE name = "a" -> {"  a", " a "}
      [] name = "b" -> {"  b", " b "}
      [] name = "c" -> {"  c", " c "}
      [] name = "zz" -> {"  z", " zz", "zz "}

\* similarity(x, y) > 0.3: shared trigrams over all trigrams
Similar(x, y) ==
    10 * Cardinality(Trigrams(x) \cap Trigrams(y))
        > 3 * Cardinality(Trigrams(x) \cup Trigrams(y))

\* the CodeSymbol row of a function and the SymbolRelationship row of a call
SymbolRow(repo_id, commit_sha, name) ==
    [id |-> <<repo_id, commit_sha, name>>, repo_id |-> repo_id, commit_sha |-> commit_sha,
     symbol_type |-> "function", name |-> name, qualified_name |-> name,
     file_path |-> "main.py"]

CallRow(repo_id, commit_sha, source, target) ==
    [id |-> <<repo_id, commit_sha, source, target>>, repo_id |-> repo_id,
     commit_sha |-> commit_sha, source_id |-> <<repo_id, commit_sha, source>>,
     target_id |-> <<repo_id, commit_sha, target>>, relationship_type |-> "calls"]

\* an ingestion has indexed a snapshot: a row per function, a row per call
IndexSnapshot(repo_id, commit_sha, edges) ==
    /\ \A r \in codeSymbols : ~(r.repo_id = repo_id /\ r.commit_sha = commit_sha)
    /\ codeSymbols' = codeSymbols \cup
         {SymbolRow(repo_id, commit_sha, name) : name \in SymbolNames}
    /\ symbolRels' = symbolRels \cup
         {CallRow(repo_id, commit_sha, e[1], e[2]) : e \in edges}
    /\ UNCHANGED <<messageVars, scratchVars, fileVars, deleteVars, cacheVars, coreVars, embedVars, chatVars, remoteVars, routeVars, hybridVars,
                   staticVars, istage>>

\* find_symbols_by_name: the rows of the repository, of any commit, whose
\* name is the given one (exact) or similar to it (fuzzy)
FindSymbolsByName(name, repo_id, fuzzy) ==
    {r \in codeSymbols :
        /\ r.repo_id = repo_id
        /\ IF fuzzy THEN Similar(r.name, name) ELSE r.name = name}

\* the rows a fuzzy search may put first: those of the highest similarity
\* (the names here are similar only when equal)
FirstMatches(name, repo_id) == FindSymbolsByName(name, repo_id, TRUE)

\* the ids one `calls` row away from some id of `ids`
Callees(ids) ==
    {sr.target_id : sr \in {x \in symbolRels :
                               /\ x.relationship_type = "calls"
                               /\ x.source_id \in ids
                               /\ \E cs \in codeSymbols : cs.id = x.target_id}}

\* the recursive query of find_callees: the ids at depth d
RECURSIVE CalleesAt(_, _)
CalleesAt(function_id, d) ==
    IF d = 1 THEN Callees({function_id}) ELSE Callees(CalleesAt(function_id, d - 1))

\* find_callees: the rows <<id, depth>> of the result, one list entry each;
\* SELECT DISTINCT * keeps a symbol once per depth it is found at
FindCallees(function_id, max_depth) ==
    IF max_depth = 1
    THEN {<<id, 1>> : id \in Callees({function_id})}
    ELSE UNION {{<<id, d>> : id \in CalleesAt(function_id, d)} : d \in 1..max_depth}

\* the ids of a path
IdsOf(path) == {path[i] : i \in DOMAIN path}

\* the recursive query of find_call_path with no limit on the depth
RECURSIVE CallPathsAtUnbounded(_, _, _)
CallPathsAtUnbounded(from_id, d, max_depth) ==
    IF d = 0
    THEN {<<cs.id>> : cs \in {x \in codeSymbols : x.id = from_id}}
    ELSE UNION {{Append(cp, id) : id \in Callees({cp[Len(cp)]}) \ IdsOf(cp)} :
                  cp \in CallPathsAtUnbounded(from_id, d - 1, max_depth)}

\* the recursive query of find_call_path: the rows of depth d, each the path
\* of a row of depth d - 1 < max_depth and a callee of its end not yet on it
RECURSIVE CallPathsAt(_, _, _)
CallPathsAt(from_id, d, max_depth) ==
    IF d = 0
    THEN {<<cs.id>> : cs \in {x \in codeSymbols : x.id = from_id}}
    ELSE IF d > max_depth THEN {}
    ELSE UNION {{Append(cp, id) : id \in Callees({cp[Len(cp)]}) \ IdsOf(cp)} :
                  cp \in CallPathsAt(from_id, d - 1, max_depth)}

\* WHERE id = :to_id ORDER BY depth LIMIT 1: the rows that may come first
FirstCallPaths(from_id, to_id, max_depth) ==
    LET found == {cp \in UNION {CallPathsAt(from_id, d, max_depth) :
                                   d \in 0..Cardinality(codeSymbols)} :
                     cp[Len(cp)] = to_id}
    IN  {cp \in found : \A other \in found : Len(cp) <= Len(other)}

\* find_call_path: one of the first rows, None (the empty path) without one
FindCallPath(from_id, to_id, max_depth) ==
    IF FirstCallPaths(from_id, to_id, max_depth) = {} THEN {<<>>}
    ELSE FirstCallPaths(from_id, to_id, max_depth)

\* the ids one `calls` row before some id of `ids`
Callers(ids) ==
    {sr.source_id : sr \in {x \in symbolRels :
                               /\ x.relationship_type = "calls"
                               /\ x.target_id \in ids
                               /\ \E cs \in codeSymbols : cs.id = x.source_id}}

RECURSIVE CallersAt(_, _)
CallersAt(function_id, d) ==
    IF d = 1 THEN Callers({function_id}) ELSE Callers(CallersAt(function_id, d - 1))

\* find_callers: as find_callees, along the rows backwards
FindCallers(function_id, max_depth) ==
    IF max_depth = 1
    THEN {<<id, 1>> : id \in Callers({function_id})}
    ELSE UNION {{<<id, d>> : id \in CallersAt(function_id, d)} : d \in 1..max_depth}

\* depths the handlers ask for, and find_call_path's default
CallersDepth == 2
ReachableDepth == 10
DefaultMaxDepth == 10

StaticQueryResult(success, answer, rows, path) ==
    [success |-> success, answer |-> answer, rows |-> rows, path |-> path]

\* functions[0]: a row that may come first for the i-th entity, NoRow
\* without an i-th entity or a match
NoRow == SymbolRow(0, None, None)
FirstFunction(entities, i, repo_id) ==
    IF Len(entities) < i \/ FirstMatches(entities[i], repo_id) = {}
    THEN {NoRow} ELSE FirstMatches(entities[i], repo_id)

HandleFindSymbol(entities, repo_id) ==
    IF entities = <<>>
    THEN StaticQueryResult(FALSE, "No symbol name provided", {}, <<>>)
    ELSE LET exact == FindSymbolsByName(entities[1], repo_id, FALSE)
             symbols == IF exact # {} THEN exact
                        ELSE FindSymbolsByName(entities[1], repo_id, TRUE)
         IN  IF symbols = {}
             THEN StaticQueryResult(TRUE, "No symbol found matching", {}, <<>>)
             ELSE StaticQueryResult(TRUE, "Found symbol(s) matching",
                                    {<<r.id, 0>> : r \in symbols}, <<>>)

HandleFindCallers(entities, target_function) ==
    IF entities = <<>>
    THEN StaticQueryResult(FALSE, "No function name provided", {}, <<>>)
    ELSE IF target_function = NoRow
    THEN StaticQueryResult(TRUE, "Function not found", {}, <<>>)
    ELSE LET callers == FindCallers(target_function.id, CallersDepth)
         IN  StaticQueryResult(TRUE, IF callers = {} THEN "No callers found"
                                     ELSE "Found caller(s)", callers, <<>>)

HandleFindCallees(entities, source_function) ==
    IF entities = <<>>
    THEN StaticQueryResult(FALSE, "No function name provided", {}, <<>>)
    ELSE IF source_function = NoRow
    THEN StaticQueryResult(TRUE, "Function not found", {}, <<>>)
    ELSE LET callees == FindCallees(source_function.id, 1)
         IN  StaticQueryResult(TRUE, IF callees = {} THEN "doesn't call any other functions"
                                     ELSE "calls function(s)", callees, <<>>)

HandleFindCallPath(entities, from_func, to_func, path) ==
    IF Len(entities) < 2
    THEN StaticQueryResult(FALSE, "Need both source and target function names", {}, <<>>)
    ELSE IF from_func = NoRow \/ to_func = NoRow
    THEN StaticQueryResult(TRUE, "One or both functions not found", {}, <<>>)
    ELSE StaticQueryResult(TRUE, IF path = <<>> THEN "No call path found" ELSE "Call path",
                           {}, path)

HandleFindReachable(entities, function) ==
    IF entities = <<>>
    THEN StaticQueryResult(FALSE, "No function name provided", {}, <<>>)
    ELSE IF function = NoRow
    THEN StaticQueryResult(TRUE, "Function not found", {}, <<>>)
    ELSE StaticQueryResult(TRUE, "Functions reachable from",
                           FindCallees(function.id, ReachableDepth), <<>>)

\* the handlers that only report that they are not implemented
StubHandlers ==
    {"find_imports", "find_dependencies", "find_importers", "list_endpoints",
     "find_endpoints_with"}

\* the intents classify_query gives for static queries
StaticIntents == {STATIC_PATTERNS[i].intent : i \in DOMAIN STATIC_PATTERNS}

\* StaticQueryEngine.execute: the handler of the intent, if it has one
Execute(intent, entities, repo_id, commit_sha, first, second, path) ==
    CASE intent = "find_symbol" -> HandleFindSymbol(entities, repo_id)
      [] intent = "find_callers" -> HandleFindCallers(entities, first)
      [] intent = "find_callees" -> HandleFindCallees(entities, first)
      [] intent = "find_call_path" -> HandleFindCallPath(entities, first, second, path)
      [] intent = "find_reachable" -> HandleFindReachable(entities, first)
      [] intent = "list_symbols" ->
           StaticQueryResult(TRUE, "Found function(s)",
                             {<<r.id, 0>> : r \in {x \in codeSymbols :
                                                       /\ x.repo_id = repo_id
                                                       /\ x.commit_sha = commit_sha}},
                             <<>>)
      [] intent \in StubHandlers -> StaticQueryResult(FALSE, "not yet implemented", {}, <<>>)
      [] OTHER -> StaticQueryResult(FALSE, "No handler for query type", {}, <<>>)

\* the entity lists of a query: no name, one name or two
EntityLists ==
    {<<>>} \cup {<<n>> : n \in QueryNames} \cup {<<n, m>> : n \in QueryNames, m \in QueryNames}

\* the repository whose snapshot the static queries go to
StaticRepo == 1

\* a snapshot's calls are indexed
IndexCalls ==
    /\ codeSymbols = {}
    /\ \E edges \in SUBSET (SymbolNames \X SymbolNames) :
         IndexSnapshot(StaticRepo, Commits[1], edges)

\* the call graphs of a repository with two commits indexed
CommitEdges == SUBSET {<<"a", "b">>, <<"b", "a">>}

\* the repository's commits are indexed one after the other
IndexCommits ==
    /\ squery.phase = None
    /\ \E c \in 1..2, edges \in CommitEdges :
         /\ \A k \in 1..(c - 1) : \E r \in codeSymbols : r.commit_sha = Commits[k]
         /\ IndexSnapshot(StaticRepo, Commits[c], edges)

\* a static query is executed
ExecuteStaticQuery ==
    /\ codeSymbols # {}
    /\ squery.phase = None
    /\ \E intent \in StaticIntents, entities \in EntityLists,
          commit_sha \in {r.commit_sha : r \in codeSymbols} :
         \E first \in FirstFunction(entities, 1, StaticRepo),
            second \in FirstFunction(entities, 2, StaticRepo) :
           \E path \in FindCallPath(first.id, second.id, DefaultMaxDepth) :
             squery' = [NoQuery EXCEPT !.phase = "executed", !.intent = intent,
                                       !.entities = entities, !.commit_sha = commit_sha,
                                       !.result = Execute(intent, entities, StaticRepo,
                                                          commit_sha, first, second, path)]
    /\ UNCHANGED <<messageVars, scratchVars, fileVars, deleteVars, cacheVars, coreVars, embedVars, indexVars, chatVars, remoteVars, routeVars, hybridVars>>

\* find_call_path is called with two ids and a depth
CallFindCallPath ==
    /\ codeSymbols # {}
    /\ squery.phase = None
    /\ \E from_id \in {r.id : r \in codeSymbols} \cup {NoRow.id},
          to_id \in {r.id : r \in codeSymbols} \cup {NoRow.id},
          max_depth \in {0, 1, 2, DefaultMaxDepth} :
         \E path \in FindCallPath(from_id, to_id, max_depth) :
           squery' = [NoQuery EXCEPT !.phase = "path", !.from_id = from_id, !.to_id = to_id,
                                     !.max_depth = max_depth,
                                     !.result = StaticQueryResult(TRUE, None, {}, path)]
    /\ UNCHANGED <<messageVars, scratchVars, fileVars, deleteVars, cacheVars, coreVars, embedVars, indexVars, chatVars, remoteVars, routeVars, hybridVars>>

(* ------------------------------------------------------------------ *)
(* Chat messages: ChatService.process_message                          *)
(* ------------------------------------------------------------------ *)

\* the ingestion of a run has indexed the run's snapshot
IndexRunSnapshot ==
    \E r \in DOMAIN runs : IndexSnapshot(runs[r].repo_id, runs[r].commit_sha, {})

\* the commits of the rows a static result lists
SourcesOf(result) == {row[1][2] : row \in result.rows}

\* ChatService.process_message: the message is answered by the hybrid service,
\* here for a find_symbol query, or, when that raises, by the agent; either
\* way with the session's repo_id and commit_sha as the context. `sources`
\* are the commits whose symbols the answer lists
ProcessMessage ==
    /\ Len(answers) < MaxMessages
    /\ \E session_id \in DOMAIN sessions, engine \in {"hybrid", "agent"},
          name \in QueryNames :
         answers' = Append(answers,
                           [session |-> session_id, engine |-> engine,
                            repo_id |-> QueryContext(session_id)[1],
                            commit_sha |-> QueryContext(session_id)[2],
                            pinned |-> sessions[session_id].commit_sha,
                            sources |-> IF engine = "hybrid"
                                        THEN SourcesOf(HandleFindSymbol(
                                                 <<name>>, QueryContext(session_id)[1]))
                                        ELSE {}])
    /\ UNCHANGED <<messageVars, scratchVars, fileVars, deleteVars, cacheVars, staticVars, hybridVars, routeVars, remoteVars, coreVars, embedVars, indexVars, sessions>>

(* ------------------------------------------------------------------ *)
(* Caches: RedisCacheService and LocalEmbeddingService.embed           *)
(* ------------------------------------------------------------------ *)

\* the texts embedded, the queries cached, and the results of queries;
\* a result holds a UUID
Texts == {"t1", "t2"}
CachedQueries == {<<"q1", "r1", "c1">>}
QueryResults ==
    {[answer |-> a, repo_id |-> <<"UUID", "r1">>] : a \in {"x", "y"}}

\* self.model.encode(texts)[0].tolist(): the model's vector of a text
Encode(text) == IF text = "t1" THEN <<1, 2>> ELSE <<2, 1>>

\* a call returns a value, returns None, or raises
Returned(value) == [raised |-> FALSE, none |-> FALSE, value |-> value]
ReturnedNone == [raised |-> FALSE, none |-> TRUE, value |-> <<>>]
Raised == [raised |-> TRUE, none |-> FALSE, value |-> <<>>]

\* a try block without its except clause: what is raised goes to the caller
CatchNothing(outcome) == outcome

\* try: ... except Exception: log, and return None or go on
Catch(outcome) ==
    IF outcome.raised THEN ReturnedNone ELSE outcome

\* json.dumps and json.loads; default=str writes a UUID as its string
Str(value) == IF Len(value) = 2 /\ value[1] = "UUID" THEN value[2] ELSE value
JsonDumps(value) == [json |-> value]
JsonDumpsDefaultStr(result) ==
    [json |-> [answer |-> result.answer, repo_id |-> Str(result.repo_id)]]
JsonLoads(bytes) == bytes.json

\* the first 16 hex digits of a digest are taken to differ when the digests do
MakeEmbeddingKey(text) == <<"emb:", Sha256Hex(text)>>
MakeQueryKey(query) ==
    <<"query:", Sha256Hex(query[1] \o "|" \o query[2] \o "|" \o query[3])>>

\* is_available: there is a client and its ping does not raise
IsAvailable(pingFails) == rcache.client # None /\ ~pingFails

\* self.client.get(key) and what follows it in both get methods
GetCached(key, pingFails, getFails) ==
    IF ~IsAvailable(pingFails) THEN ReturnedNone
    ELSE Catch(IF getFails THEN Raised
               ELSE IF key \in DOMAIN rcache.store
                    THEN Returned(JsonLoads(rcache.store[key]))
                    ELSE ReturnedNone)

\* self.client.setex(key, ttl, bytes) and what surrounds it in both set
\* methods: the outcome, and the store afterwards
SetCached(pingFails, setFails) ==
    IF ~IsAvailable(pingFails) THEN ReturnedNone
    ELSE Catch(IF setFails THEN Raised ELSE ReturnedNone)

StoreAfterSet(key, bytes, pingFails, setFails) ==
    IF IsAvailable(pingFails) /\ ~setFails
    THEN [k \in DOMAIN rcache.store \cup {key} |->
             IF k = key THEN bytes ELSE rcache.store[k]]
    ELSE rcache.store

GetEmbedding(text, pingFails, getFails) ==
    GetCached(MakeEmbeddingKey(text), pingFails, getFails)

GetQueryResult(query, pingFails, getFails) ==
    GetCached(MakeQueryKey(query), pingFails, getFails)

\* embed(text), first half: the cached vector if the cache gives one
EmbedCacheCheck(text, fails) ==
    Catch(IF IsAvailable("ping1" \in fails)
          THEN GetEmbedding(text, "ping2" \in fails, "get" \in fails)
          ELSE ReturnedNone)

\* embed(text), second half: the encoded vector is cached, then returned
EmbedCacheSet(text, fails) ==
    Catch(IF IsAvailable("ping3" \in fails)
          THEN SetCached("ping4" \in fails, "setex" \in fails)
          ELSE ReturnedNone)

\* embed(text): the outcome
Embed(text, fails) ==
    LET cached == EmbedCacheCheck(text, fails) IN
    IF cached.raised THEN Raised
    ELSE IF ~cached.none /\ cached.value # <<>> THEN cached
    ELSE IF EmbedCacheSet(text, fails).raised THEN Raised
    ELSE Returned(Encode(text))

\* embed(text): the store afterwards
StoreAfterEmbed(text, fails) ==
    LET cached == EmbedCacheCheck(text, fails) IN
    IF cached.raised \/ (~cached.none /\ cached.value # <<>>) THEN rcache.store
    ELSE IF IsAvailable("ping3" \in fails)
    THEN StoreAfterSet(MakeEmbeddingKey(text), JsonDumps(Encode(text)),
                       "ping4" \in fails, "setex" \in fails)
    ELSE rcache.store

\* get_cache_service, first call: RedisCacheService() connects or, failing
\* to, keeps no client
ConnectCache ==
    /\ rcache.client = "unset"
    /\ \E connected \in BOOLEAN :
         rcache' = [rcache EXCEPT !.client = IF connected THEN "client" ELSE None]
    /\ UNCHANGED <<messageVars, scratchVars, fileVars, deleteVars, cop, coreVars, embedVars, indexVars, chatVars, remoteVars, routeVars,
                   hybridVars, staticVars>>

CallGetEmbedding ==
    /\ rcache.client # "unset"
    /\ \E text \in Texts, fails \in SUBSET {"ping", "get"} :
         cop' = [op |-> "get_embedding", text |-> text, fails |-> fails,
                 out |-> GetEmbedding(text, "ping" \in fails, "get" \in fails)]
    /\ UNCHANGED <<messageVars, scratchVars, fileVars, deleteVars, rcache, coreVars, embedVars, indexVars, chatVars, remoteVars, routeVars,
                   hybridVars, staticVars>>

CallSetEmbedding ==
    /\ rcache.client # "unset"
    /\ \E text \in Texts, fails \in SUBSET {"ping", "setex"} :
         /\ cop' = [op |-> "set_embedding", text |-> text, fails |-> fails,
                    out |-> SetCached("ping" \in fails, "setex" \in fails)]
         /\ rcache' = [rcache EXCEPT !.store =
                          StoreAfterSet(MakeEmbeddingKey(text), JsonDumps(Encode(text)),
                                        "ping" \in fails, "setex" \in fails)]
    /\ UNCHANGED <<messageVars, scratchVars, fileVars, deleteVars, coreVars, embedVars, indexVars, chatVars, remoteVars, routeVars,
                   hybridVars, staticVars>>

CallGetQueryResult ==
    /\ rcache.client # "unset"
    /\ \E query \in CachedQueries, fails \in SUBSET {"ping", "get"} :
         cop' = [op |-> "get_query_result", text |-> query, fails |-> fails,
                 out |-> GetQueryResult(query, "ping" \in fails, "get" \in fails)]
    /\ UNCHANGED <<messageVars, scratchVars, fileVars, deleteVars, rcache, coreVars, embedVars, indexVars, chatVars, remoteVars, routeVars,
                   hybridVars, staticVars>>

CallSetQueryResult ==
    /\ rcache.client # "unset"
    /\ \E query \in CachedQueries, result \in QueryResults,
          fails \in SUBSET {"ping", "setex"} :
         /\ cop' = [op |-> "set_query_result", text |-> query, fails |-> fails,
                    out |-> SetCached("ping" \in fails, "setex" \in fails)]
         /\ rcache' = [rcache EXCEPT !.store =
                          StoreAfterSet(MakeQueryKey(query), JsonDumpsDefaultStr(result),
                                        "ping" \in fails, "setex" \in fails)]
    /\ UNCHANGED <<messageVars, scratchVars, fileVars, deleteVars, coreVars, embedVars, indexVars, chatVars, remoteVars, routeVars,
                   hybridVars, staticVars>>

CallEmbed ==
    /\ rcache.client # "unset"
    /\ \E text \in Texts,
          fails \in SUBSET {"ping1", "ping2", "get", "ping3", "ping4", "setex"} :
         /\ cop' = [op |-> "embed", text |-> text, fails |-> fails,
                    out |-> Embed(text, fails)]
         /\ rcache' = [rcache EXCEPT !.store = StoreAfterEmbed(text, fails)]
    /\ UNCHANGED <<messageVars, scratchVars, fileVars, deleteVars, coreVars, embedVars, indexVars, chatVars, remoteVars, routeVars,
                   hybridVars, staticVars>>

\* a key's time to live runs out
ExpireKey ==
    /\ \E key \in DOMAIN rcache.store :
         rcache' = [rcache EXCEPT !.store =
                       [k \in DOMAIN rcache.store \ {key} |-> rcache.store[k]]]
    /\ UNCHANGED <<messageVars, scratchVars, fileVars, deleteVars, cop, coreVars, embedVars, indexVars, chatVars, remoteVars, routeVars,
                   hybridVars, staticVars>>

(* ------------------------------------------------------------------ *)
(* Deleting a repository: delete_repo_task                             *)
(* ------------------------------------------------------------------ *)

\* the name of a stored object: provider/owner/name/commit_sha/type, the
\* provider being the first label of the host
ObjectName(blob) == <<blob[1][1], blob[1][2], blob[1][3], blob[2], blob[3]>>

\* list_objects(prefix=f"{repo_id}/"): the objects whose name starts with
\* the repository id and a slash
ObjectsWithPrefix(repo_id) ==
    {b \in blobs : ObjectName(b)[1] = <<ToString(repo_id)>>}

\* delete_repo_task: the repository's vectors are deleted, then the objects
\* under its prefix one by one; an exception of either ends the task with
\* status error
DeleteRepoTask ==
    /\ Len(deletes) < MaxDeletes
    /\ \E repo_id \in {r.id : r \in repos}, raises \in {None, "vectors", "storage"} :
         /\ vectors' = IF raises = "vectors" THEN vectors
                       ELSE {p \in vectors : p[1] # repo_id}
         /\ IF raises = "vectors" THEN UNCHANGED blobs
            ELSE IF raises = "storage"
            THEN \E removed \in SUBSET ObjectsWithPrefix(repo_id) : blobs' = blobs \ removed
            ELSE blobs' = blobs \ ObjectsWithPrefix(repo_id)
         /\ deletes' = Append(deletes, [repo_id |-> repo_id,
                                        status |-> IF raises = None THEN "success"
                                                   ELSE "error"])
    /\ UNCHANGED <<messageVars, scratchVars, fileVars, cacheVars, staticVars, hybridVars, routeVars, remoteVars, chatVars,
                   indexVars, embedVars, dbVars, queue, symbolRows, relRows, handlerVars,
                   workerVars>>

(* ------------------------------------------------------------------ *)
(* Classes and methods of a file: SymbolIndexer.index_file             *)
(* ------------------------------------------------------------------ *)

\* a file's class declarations, in the order declared, and its methods, each
\* with the name of its class
ClassNames == {"A", "B"}
ClassLists == UNION {[1..n -> ClassNames] : n \in 0..MaxClasses}
MethodLists == UNION {[1..n -> ClassNames] : n \in 0..MaxMethods}

\* _create_class_symbol for the i-th declaration; the id is fresh (uuid4)
ClassSymbol(i, name) ==
    [id |-> <<"uuid4", i>>, symbol_type |-> "class", name |-> name,
     qualified_name |-> name, parent_symbol_id |-> <<>>]

\* symbol_cache after the first n classes: each class is stored under its
\* name, replacing what was stored under it
RECURSIVE CacheAfterClasses(_, _)
CacheAfterClasses(classes, n) ==
    IF n = 0 THEN <<>>
    ELSE LET before == CacheAfterClasses(classes, n - 1) IN
         [key \in DOMAIN before \cup {classes[n]} |->
             IF key = classes[n] THEN ClassSymbol(n, classes[n]) ELSE before[key]]

\* _create_function_symbol for the j-th method: the parent is looked up in
\* the cache by the name of the method's class
MethodSymbol(j, parent_class, symbol_cache, offset) ==
    [id |-> <<"uuid4", offset + j>>, symbol_type |-> "method", name |-> "m",
     qualified_name |-> parent_class \o ".m",
     parent_symbol_id |-> IF parent_class \in DOMAIN symbol_cache
                          THEN symbol_cache[parent_class].id ELSE <<>>]

\* the parser has extracted the classes and the methods of a file
ParseFile ==
    /\ ifile.phase = None
    /\ \E classes \in ClassLists, methods \in MethodLists :
         ifile' = [ifile EXCEPT !.phase = "parsed", !.classes = classes,
                                !.methods = methods]
    /\ UNCHANGED <<messageVars, scratchVars, deleteVars, cacheVars, staticVars, hybridVars, routeVars, remoteVars,
                   chatVars, indexVars, embedVars, coreVars>>

\* index_file: a symbol per class, cached under the class name, then a
\* symbol per method
IndexFile ==
    /\ ifile.phase = "parsed"
    /\ LET classes == ifile.classes
           symbol_cache == CacheAfterClasses(classes, Len(classes))
       IN  ifile' = [ifile EXCEPT
                !.phase = "indexed",
                !.cache = symbol_cache,
                !.symbols = [i \in 1..Len(classes) |-> ClassSymbol(i, classes[i])]
                            \o [j \in 1..Len(ifile.methods) |->
                                   MethodSymbol(j, ifile.methods[j], symbol_cache,
                                                Len(classes))]]
    /\ UNCHANGED <<messageVars, scratchVars, deleteVars, cacheVars, staticVars, hybridVars, routeVars, remoteVars,
                   chatVars, indexVars, embedVars, coreVars>>

(* ------------------------------------------------------------------ *)
(* Chat persistence: the rows ChatService.process_message stores       *)
(* ------------------------------------------------------------------ *)

\* what users write, and how many chunks an answer cites
MessageContents == {"how", "where"}
MaxCitations == 1

\* ChatMessage and MessageChunk rows; `call` stands for the ids the call draws
ChatMessageRow(session_id, role, content, call) ==
    [table |-> "chatmessage", session_id |-> session_id, role |-> role,
     content |-> content, call |-> call, n |-> 0]
MessageChunkRow(session_id, call, n) ==
    [table |-> "messagechunk", session_id |-> session_id, role |-> None,
     content |-> None, call |-> call, n |-> n]

\* the chunk links of an answer's citations
RECURSIVE ChunkLinks(_, _, _)
ChunkLinks(session_id, call, n) ==
    IF n = 0 THEN <<>>
    ELSE Append(ChunkLinks(session_id, call, n - 1), MessageChunkRow(session_id, call, n))

\* self.db.add(row) followed at once by self.db.commit()
AddAndCommit(db, rows) == [db EXCEPT !.stored = @ \o rows]

\* self.db.add(row): the row is pending until the session commits
Add(db, rows) == [db EXCEPT !.pending = @ \o rows]

\* self.db.commit(): the pending rows are stored in one transaction
Commit(db) == [pending |-> <<>>, stored |-> db.stored \o db.pending]

\* get_db's finally: db.close() discards what was not committed
Close(db) == [db EXCEPT !.pending = <<>>]

\* process_message is called: the session is fetched and the user message added
SendMessage ==
    /\ pm.phase = None
    /\ pm.calls < MaxMessages
    /\ \E session_id \in 1..(Len(sessions) + 1), content \in MessageContents :
         IF session_id \notin DOMAIN sessions
         THEN /\ pm' = [NoMessage EXCEPT !.calls = pm.calls + 1, !.session = session_id,
                                         !.raised = TRUE]
              /\ UNCHANGED chatDb
         ELSE /\ pm' = [NoMessage EXCEPT !.phase = "added", !.calls = pm.calls + 1,
                                         !.session = session_id, !.content = content,
                                         !.added = TRUE]
              /\ chatDb' = Add(chatDb, <<ChatMessageRow(session_id, "user", content,
                                                        pm.calls + 1)>>)
    /\ UNCHANGED <<scratchVars, fileVars, deleteVars, cacheVars, staticVars, hybridVars, routeVars, remoteVars, coreVars, embedVars, indexVars, chatVars>>

\* the hybrid service answers, or raises and the agent answers, or the agent
\* raises too and the call ends
AnswerMessage ==
    /\ pm.phase = "added"
    /\ \E hybridRaises \in BOOLEAN, agentRaises \in BOOLEAN, citations \in 0..MaxCitations :
         IF hybridRaises /\ agentRaises
         THEN /\ pm' = [pm EXCEPT !.phase = None, !.raised = TRUE]
              /\ chatDb' = Close(chatDb)
         ELSE /\ pm' = [pm EXCEPT !.phase = "answered", !.citations = citations,
                                  !.content = IF hybridRaises THEN "generation"
                                              ELSE "llm_answer"]
              /\ UNCHANGED chatDb
    /\ UNCHANGED <<scratchVars, fileVars, deleteVars, cacheVars, staticVars, hybridVars, routeVars, remoteVars, coreVars, embedVars, indexVars, chatVars>>

\* the assistant message and the links to the cited chunks are added; reading
\* a citation's score may raise
AddReply ==
    /\ pm.phase = "answered"
    /\ \E raises \in {r \in BOOLEAN : r => pm.citations > 0} :
         IF raises
         THEN /\ pm' = [pm EXCEPT !.phase = None, !.raised = TRUE]
              /\ chatDb' = Close(Add(chatDb, <<ChatMessageRow(pm.session, "assistant",
                                                              pm.content, pm.calls)>>))
         ELSE /\ pm' = [pm EXCEPT !.phase = "built"]
              /\ chatDb' = Add(Add(chatDb, <<ChatMessageRow(pm.session, "assistant",
                                                            pm.content, pm.calls)>>),
                               ChunkLinks(pm.session, pm.calls, pm.citations))
    /\ UNCHANGED <<scratchVars, fileVars, deleteVars, cacheVars, staticVars, hybridVars, routeVars, remoteVars, coreVars, embedVars, indexVars, chatVars>>

\* the one commit of the call, which may fail and roll back, and the refresh
\* after it, which may fail with the rows stored
CommitReply ==
    /\ pm.phase = "built"
    /\ \E raises \in {None, "commit", "refresh"} :
         /\ pm' = [pm EXCEPT !.phase = None, !.raised = (raises # None)]
         /\ chatDb' = IF raises = "commit" THEN Close(chatDb) ELSE Close(Commit(chatDb))
    /\ UNCHANGED <<scratchVars, fileVars, deleteVars, cacheVars, staticVars, hybridVars, routeVars, remoteVars, coreVars, embedVars, indexVars, chatVars>>

\* the first call of ingest_repository
FirstIngest == calls = 0 /\ IngestCall

\* the first chat session
FirstSession == sessions = <<>> /\ CreateSession

\* a repository is ingested, a chat session is created, and messages are
\* sent to it and to a session that does not exist
NextMessage ==
    \/ FirstIngest
    \/ FirstSession
    \/ SendMessage
    \/ AnswerMessage
    \/ AddReply
    \/ CommitReply

SpecMessage == Init /\ [][NextMessage]_vars

(* ------------------------------------------------------------------ *)
(* Specifications                                                      *)
(* ------------------------------------------------------------------ *)

\* the pipeline task step by step, under whole ingest calls
Next ==
    \/ IngestCall
    \/ \E w \in Workers : Deliver(w)
    \/ \E w \in Workers : LoadRun(w)
    \/ \E w \in Workers : CloneRepo(w)
    \/ \E w \in Workers : IndexSymbols(w)
    \/ \E w \in Workers : UploadSourceTree(w)
    \/ \E w \in Workers : BuildCallGraph(w)
    \/ \E w \in Workers : ChunkAndEmbed(w)
    \/ \E w \in Workers : SaveArtifacts(w)
    \/ \E w \in Workers : CompleteRun(w)
    \/ \E w \in Workers : HandleException(w)
    \/ \E w \in Workers : Finally(w)
    \/ \E w \in Workers : Cancel(w)

Spec == Init /\ [][Next]_vars

\* the ingest endpoint step by step, concurrent calls interleaved
NextApi ==
    \/ \E h \in Handlers : BeginIngest(h)
    \/ \E h \in Handlers : SelectRepo(h)
    \/ \E h \in Handlers : InsertRepo(h)
    \/ \E h \in Handlers : GrantAccess(h)
    \/ \E h \in Handlers : UpdateLatest(h)
    \/ \E h \in Handlers : CheckAccess(h)
    \/ \E h \in Handlers : StartIngestion(h)
    \/ \E h \in Handlers : SubmitRun(h)
    \/ StartTask

SpecApi == Init /\ [][NextApi]_vars

\* the embed stage run again and again over one clone
NextEmbed ==
    \/ CloneForEmbedding
    \/ ProcessEmbeddingsLocal
    \/ ProcessEmbeddingsAsync

SpecEmbed == Init /\ [][NextEmbed]_vars

\* the indexing stages run again and again over one clone
NextIndex ==
    \/ CloneForIndexing
    \/ RunSymbolIndexing
    \/ RunCallGraphBuilder

SpecIndex == Init /\ [][NextIndex]_vars

\* chat sessions and messages while repositories are ingested again
NextChat ==
    \/ IngestCall
    \/ CreateSession
    \/ IndexRunSnapshot
    \/ ProcessMessage

SpecChat == Init /\ [][NextChat]_vars

\* one run's chunks embedded through the remote API
NextRemote ==
    \/ StartRemoteEmbedding
    \/ \E s \in Slots : EnterSemaphore(s)
    \/ \E s \in Slots : WaitForSlot(s)
    \/ \E s \in Slots : SlotTaken(s)
    \/ \E s \in Slots : ReceiveResponse(s)
    \/ \E s \in Slots : Retry(s)
    \/ Sleep
    \/ FinishRemoteRun

SpecRemote == Init /\ [][NextRemote]_vars

\* queries through the router
NextRoute ==
    \/ AskQuery
    \/ RouteQuery

SpecRoute == Init /\ [][NextRoute]_vars

\* calls of execute_query
NextHybrid ==
    \/ ClassifyForExecution
    \/ RunStaticAnalysis
    \/ RunSemanticSearch
    \/ GenerateAndReturn

SpecHybrid == Init /\ [][NextHybrid]_vars

\* static queries on an indexed snapshot
NextStatic ==
    \/ IndexCalls
    \/ ExecuteStaticQuery
    \/ CallFindCallPath

SpecStatic == Init /\ [][NextStatic]_vars

\* the caches and embed under a cache backend that may fail at any call
NextCache ==
    \/ ConnectCache
    \/ CallGetEmbedding
    \/ CallSetEmbedding
    \/ CallGetQueryResult
    \/ CallSetQueryResult
    \/ CallEmbed
    \/ ExpireKey

SpecCache == Init /\ [][NextCache]_vars

\* repositories ingested by the pipeline and deleted
NextDelete ==
    \/ Next
    \/ DeleteRepoTask

SpecDelete == Init /\ [][NextDelete]_vars

\* files indexed for their classes and methods
NextFile ==
    \/ ParseFile
    \/ IndexFile

SpecFile == Init /\ [][NextFile]_vars

\* static queries on a repository with more than one commit indexed
NextCommits ==
    \/ IndexCommits
    \/ ExecuteStaticQuery

SpecCommits == Init /\ [][NextCommits]_vars

\* the first call of the ingest endpoint begins
FirstBeginIngest(h) == calls = 0 /\ BeginIngest(h)

\* one repository is ingested for the first time, the endpoint taken step by
\* step and the task run by the workers
NextLive ==
    \/ \E h \in Handlers : FirstBeginIngest(h)
    \/ \E h \in Handlers : SelectRepo(h)
    \/ \E h \in Handlers : InsertRepo(h)
    \/ \E h \in Handlers : GrantAccess(h)
    \/ \E h \in Handlers : StartIngestion(h)
    \/ \E h \in Handlers : SubmitRun(h)
    \/ \E h \in Handlers : SubmitFails(h)
    \/ \E w \in Workers : Deliver(w)
    \/ \E w \in Workers : LoadRun(w)
    \/ \E w \in Workers : CloneRepo(w)
    \/ \E w \in Workers : IndexSymbols(w)
    \/ \E w \in Workers : UploadSourceTree(w)
    \/ \E w \in Workers : BuildCallGraph(w)
    \/ \E w \in Workers : ChunkAndEmbed(w)
    \/ \E w \in Workers : SaveArtifacts(w)
    \/ \E w \in Workers : CompleteRun(w)
    \/ \E w \in Workers : HandleException(w)
    \/ \E w \in Workers : Finally(w)
    \/ \E w \in Workers : Cancel(w)

\* a step of the task on a worker
TaskStep(w) ==
    \/ LoadRun(w)
    \/ CloneRepo(w)
    \/ IndexSymbols(w)
    \/ UploadSourceTree(w)
    \/ BuildCallGraph(w)
    \/ ChunkAndEmbed(w)
    \/ SaveArtifacts(w)
    \/ CompleteRun(w)
    \/ HandleException(w)
    \/ Finally(w)

\* the workers keep consuming the queue and a task that can take a step takes
\* it; nothing obliges a submit to succeed or a signal to arrive
SpecLive ==
    /\ Init
    /\ [][NextLive]_vars
    /\ \A w \in Workers : WF_vars(Deliver(w)) /\ WF_vars(TaskStep(w))
    /\ \A h \in Handlers : WF_vars(SelectRepo(h) \/ InsertRepo(h) \/ GrantAccess(h)
                                    \/ StartIngestion(h))

(* ------------------------------------------------------------------ *)
(* Properties                                                          *)
(* ------------------------------------------------------------------ *)

\* C1: for a given (repo_id, commit_sha) at most one run is RUNNING at any
\* time: a second worker reaching a run of the same repository and commit
\* does not set it RUNNING while another one is
OneRunningRunPerCommit ==
    \A r1 \in DOMAIN runs, r2 \in DOMAIN runs :
        (r1 # r2 /\ PartitionOf(r1) = PartitionOf(r2))
            => ~(runs[r1].status = "running" /\ runs[r2].status = "running")

\* C2: a run's status only moves forward, PENDING -> RUNNING -> COMPLETED or
\* FAILED: a COMPLETED or FAILED run never returns to RUNNING or PENDING, and
\* a RUNNING run never returns to PENDING, whatever the broker redelivers
StatusNeverRegresses ==
    [][\A r \in DOMAIN runs :
          /\ runs[r].status \in {"completed", "failed"}
                => runs'[r].status \in {"completed", "failed"}
          /\ runs[r].status = "running" => runs'[r].status # "pending"]_vars

\* C3: when a stage has raised after the run row was loaded, the except
\* clause leaves the run FAILED with the exception's text as its error
ExceptionMarksRunFailed ==
    [][\A w \in Workers :
          (wpc[w] = "except" /\ wpc'[w] = "finally")
              => /\ runs'[wtask[w].run].status = "failed"
                 /\ runs'[wtask[w].run].error = wtask[w].exc]_vars

\* C4: a task moves through its stages strictly in the order clone, symbol
\* indexing, source-tree upload, call graph and dependencies, chunk and embed,
\* artifact and manifest upload, COMPLETED; a stage starts only when the one
\* before it has written its output, and COMPLETED is set only when the
\* symbols, the relationships, the vectors and the manifest are all written
StagesInOrderThenCompleted ==
    /\ [](\A w \in Workers :
            LET r == wtask[w].run IN
            /\ wpc[w] \in {"upload", "callgraph", "embed", "artifacts", "complete"}
                  => PartitionOf(r) \in symbolRows
            /\ wpc[w] \in {"callgraph", "embed", "artifacts", "complete"}
                  => ArtifactOf(r, "source_tree") \in blobs
            /\ wpc[w] \in {"embed", "artifacts", "complete"}
                  => PartitionOf(r) \in relRows
            /\ wpc[w] \in {"artifacts", "complete"}
                  => PartitionOf(r) \in vectors
            /\ wpc[w] = "complete"
                  => ArtifactOf(r, "manifest") \in blobs)
    /\ [](\A r \in DOMAIN runs :
            runs[r].status = "completed"
                => /\ PartitionOf(r) \in symbolRows
                   /\ PartitionOf(r) \in relRows
                   /\ PartitionOf(r) \in vectors
                   /\ ArtifactOf(r, "manifest") \in blobs)
    /\ [][\A w \in Workers :
            wpc'[w] # wpc[w]
                  => <<wpc[w], wpc'[w]>> \in
                       {<<"idle", "load">>, <<"load", "clone">>, <<"clone", "index">>,
                        <<"index", "upload">>, <<"upload", "callgraph">>,
                        <<"callgraph", "embed">>, <<"embed", "artifacts">>,
                        <<"artifacts", "complete">>, <<"complete", "finally">>,
                        <<"load", "finally">>, <<"except", "finally">>,
                        <<"finally", "idle">>}
                     \cup ({"clone", "index", "upload", "callgraph", "embed", "artifacts"}
                              \X {"except"})
                     \cup (Executing \X {"idle"})]_vars
    /\ [][\A r \in DOMAIN runs :
            (runs[r].status # "completed" /\ runs'[r].status = "completed")
                => \E w \in Workers : wpc[w] = "complete" /\ wtask[w].run = r]_vars

\* a run has been taken through every stage and set COMPLETED
RunCompletedAfterAllStages ==
    \E w \in Workers :
        /\ wpc[w] = "finally"
        /\ wtask[w].exc = None
        /\ wtask[w].path
        /\ runs[wtask[w].run].status = "completed"

\* C5: when chunking, embedding or the artifact upload fails, the symbol and
\* relationship rows the task committed before stay in place: while the
\* failure is handled, and in the FAILED run it leaves
LateFailureKeepsIndexedRows ==
    /\ \A w \in Workers :
          wtask[w].exc \in {"embedding failed", "artifact upload failed"}
              => /\ PartitionOf(wtask[w].run) \in symbolRows
                 /\ PartitionOf(wtask[w].run) \in relRows
    /\ \A r \in DOMAIN runs :
          (runs[r].status = "failed"
             /\ runs[r].error \in {"embedding failed", "artifact upload failed"})
              => /\ PartitionOf(r) \in symbolRows
                 /\ PartitionOf(r) \in relRows

\* a task has failed in the embedding or artifact stage and has been marked FAILED
FailedAfterIndexing ==
    \E w \in Workers :
        /\ wpc[w] = "finally"
        /\ wtask[w].exc \in {"embedding failed", "artifact upload failed"}
        /\ runs[wtask[w].run].status = "failed"
        /\ runs[wtask[w].run].error = wtask[w].exc

\* C6: a repository's latest_commit_sha and last_indexed_at change when one
\* of its runs reaches COMPLETED, to that run's commit and a time, and only then
RepositoryUpdatedOnCompletionOnly ==
    [][/\ \A a \in repos, b \in repos' :
             (a.id = b.id /\ a # b)
                 => \E r \in DOMAIN runs :
                       /\ runs[r].repo_id = a.id
                       /\ runs[r].status # "completed"
                       /\ runs'[r].status = "completed"
                       /\ b.latest_commit_sha = runs[r].commit_sha
                       /\ b.last_indexed_at # None
       /\ \A r \in DOMAIN runs :
             (runs[r].status # "completed" /\ runs'[r].status = "completed")
                 => \A b \in repos' :
                       b.id = runs[r].repo_id
                           => /\ b.latest_commit_sha = runs[r].commit_sha
                              /\ b.last_indexed_at # None]_vars

\* C7: a task cancelled by an external signal while its run is RUNNING leaves
\* the run FAILED with the error "cancelled"
CancelMarksRunFailed ==
    [][\A w \in Workers :
          (wpc[w] \in Executing /\ wpc'[w] = "idle"
             /\ runs[wtask[w].run].status = "running")
              => /\ runs'[wtask[w].run].status = "failed"
                 /\ runs'[wtask[w].run].error = "cancelled"]_vars

SameUrlSameRepoId ==
    /\ \A a \in repos, b \in repos : a.key = b.key => a = b
    /\ \A c \in DOMAIN responses :
          /\ responses[c].code \in {200, 400, 403}
          /\ responses[c].code = 200
                => \E a \in repos : a.key = responses[c].key /\ a.id = responses[c].repo_id

\* C10: running the embed stage again for the same (repo_id, commit_sha) over
\* the same clone never adds a second point for a chunk: a point's id is a
\* function of (repo_id, commit_sha, file_path, start_line) only and distinct
\* chunks have distinct ids, so a rerun overwrites the points it embeds again.
\* The ids stored after a run contain those stored after the run before and
\* lie within the ids of the clone's chunks; they are the same set whenever
\* the earlier run embedded every chunk, as the local stage always does
RerunOverwritesPoints ==
    LET chunks == ChunkRepository(estage.tree)
        idOf(c) == VectorId(estage.embedder, estage.repo_id, estage.commit_sha,
                            c.file_path, c.start_line)
        chunkIds == {idOf(chunks[i]) : i \in 1..Len(chunks)}
        done == estage.done
    IN  /\ \A i \in 1..Len(chunks), j \in 1..Len(chunks) :
              idOf(chunks[i]) = idOf(chunks[j]) => i = j
        /\ \A id \in DOMAIN points :
              id = VectorId(estage.embedder, points[id].repo_id, points[id].commit_sha,
                            points[id].file_path, points[id].start_line)
        /\ DOMAIN points \subseteq chunkIds
        /\ \A k \in 1..Len(done) :
              /\ done[k].embedded \subseteq done[k].ids
              /\ done[k].ids \subseteq chunkIds
              /\ estage.embedder = "local" => done[k].ids = chunkIds
              /\ k > 1 => /\ done[k - 1].ids \subseteq done[k].ids
                          /\ done[k - 1].ids = chunkIds => done[k].ids = done[k - 1].ids

\* the stage has run twice over a clone of several chunks and the second run
\* has written points the first had written
StageRunTwice ==
    /\ Len(estage.done) >= 2
    /\ Cardinality(estage.done[1].ids) > 1
    /\ estage.done[2].embedded \cap estage.done[1].ids # {}

\* C10 as stated: after the stage has run twice the collection holds the same
\* set of point ids as after it ran once
RerunLeavesSameIds ==
    \A k \in 2..Len(estage.done) : estage.done[k].ids = estage.done[k - 1].ids

\* C11: running the indexing stages again for the same (repo_id, commit_sha)
\* leaves the stored CodeSymbol rows and SymbolRelationship rows of the commit,
\* ids ignored, as they were after the first run: no symbol or edge is added twice
ReindexAddsNoRows ==
    \A k \in 2..Len(istage.done) : istage.done[k] = istage.done[1]

\* a chat session's commit is the requested commit, else the repository's
\* latest commit when the session was created; no later step, a later
\* ingestion of the repository included, changes a session's repository or
\* commit; every message is processed with the session's (repo_id, commit_sha)
\* as its context
SessionCommitPinned ==
    /\ [](\A id \in DOMAIN sessions :
            sessions[id].commit_sha =
                IF sessions[id].requested # None
                THEN sessions[id].requested ELSE sessions[id].latest)
    /\ [](\A m \in DOMAIN answers :
            /\ answers[m].repo_id = sessions[answers[m].session].repo_id
            /\ answers[m].commit_sha = answers[m].pinned
            /\ answers[m].commit_sha = sessions[answers[m].session].commit_sha)
    /\ [][\A id \in DOMAIN sessions : sessions'[id] = sessions[id]]_vars

\* a message has been answered in a session whose repository has since been
\* ingested at another commit
AnsweredAfterReingestion ==
    \E m \in DOMAIN answers :
        \E r \in repos :
            /\ r.id = sessions[answers[m].session].repo_id
            /\ sessions[answers[m].session].requested = None
            /\ r.latest_commit_sha # sessions[answers[m].session].commit_sha

\* the requests of a chunk, and the chunks whose coroutine returned None
RequestsOf(c) == {i \in DOMAIN requests : requests[i].chunk = c}
FailedChunks == {c \in 1..rrun.total : rrun.results[c] = "none"}

\* the limiter alone: the requests it admits start at least
\* 60/requests_per_minute seconds apart
AdmittedRequestsSpaced ==
    \A i, j \in DOMAIN requests :
        i < j /\ requests[i].limited /\ requests[j].limited
            => requests[j].time - requests[i].time >= DelayBetweenRequests

\* C13: every outbound embedding request, a retry after a 429 included, has
\* passed the global rate limiter, and no two outbound requests start less
\* than 60/requests_per_minute seconds apart
EveryRequestRateLimited ==
    /\ \A i \in DOMAIN requests : requests[i].limited
    /\ \A i, j \in DOMAIN requests :
           i < j => requests[j].time - requests[i].time >= DelayBetweenRequests

\* the retry loop when every Retry-After header is absent or a number: at most
\* 3 requests per chunk, each retry after a 429 and its wait, a 200 gives the
\* vector, and only a non-429 failure or three 429s give up
RetryPolicyNumericHeader ==
    \A c \in 1..rrun.total :
        /\ Cardinality(RequestsOf(c)) <= MaxRetries
        /\ \A i \in RequestsOf(c) :
               requests[i].attempt > 0 =>
                   \E p \in RequestsOf(c) :
                       /\ requests[p].attempt = requests[i].attempt - 1
                       /\ requests[p].response.status = 429
                       /\ requests[i].time >= requests[p].time
                              + RetryWait(requests[p].response.header, requests[p].attempt)
        /\ rrun.results[c] = "vector"
               <=> \E i \in RequestsOf(c) : requests[i].response.status = 200
        /\ (/\ rrun.results[c] = "none"
            /\ \A i \in RequestsOf(c) :
                   /\ requests[i].response.status = 429
                   /\ requests[i].response.header # HttpDate)
               => Cardinality(RequestsOf(c)) = MaxRetries

\* C14: a text gets at most 3 requests; each retry follows a 429 and its wait
\* (Retry-After if present, else 20 * 2^attempt); a 200 yields the embedding;
\* a chunk answered with nothing but 429s is given up only after three of
\* them; and the run does not fail
RetriesThriceThenSkips ==
    /\ \A c \in 1..rrun.total :
        /\ Cardinality(RequestsOf(c)) <= MaxRetries
        /\ \A i \in RequestsOf(c) :
               requests[i].attempt > 0 =>
                   \E p \in RequestsOf(c) :
                       /\ requests[p].attempt = requests[i].attempt - 1
                       /\ requests[p].response.status = 429
                       /\ requests[i].time >= requests[p].time
                              + RetryWait(requests[p].response.header, requests[p].attempt)
        /\ rrun.results[c] = "vector"
               <=> \E i \in RequestsOf(c) : requests[i].response.status = 200
        /\ (/\ rrun.results[c] = "none"
            /\ \A i \in RequestsOf(c) : requests[i].response.status = 429)
               => Cardinality(RequestsOf(c)) = MaxRetries
    /\ rrun.status # "failed"
    /\ rrun.phase = "done" => rrun.status = "completed"

\* C15: chunks that fail to embed are left out and the run completes when at
\* most half of them fail; when more than half fail the finished run carries
\* a mark that a run without failures does not carry
MajorityFailureMarksRun ==
    rrun.phase = "done" =>
        /\ rrun.stored = rrun.total - Cardinality(FailedChunks)
        /\ 2 * Cardinality(FailedChunks) <= rrun.total => rrun.status = "completed"
        /\ 2 * Cardinality(FailedChunks) > rrun.total
               => <<rrun.status, rrun.error>> # <<"completed", None>>

\* the static patterns that match the text
StaticMatches(text) ==
    {i \in DOMAIN STATIC_PATTERNS : Search(STATIC_PATTERNS[i].pattern, text)}

\* C16: the intent is fixed by the query text through four rules in order: a
\* matching static pattern gives static, the intent of the first matching
\* pattern in declaration order and confidence 0.9; else a hybrid keyword
\* gives hybrid/hybrid_analysis, 0.7; else a semantic keyword gives
\* semantic/semantic_search, 0.8; else hybrid/general_query, 0.5
ClassifiedByPriority ==
    route.phase = "routed" =>
        LET text == Strip(Lower(route.query))
            first == CHOOSE i \in StaticMatches(text) :
                         \A j \in StaticMatches(text) : i <= j
        IN  IF StaticMatches(text) # {}
            THEN route.intent = [query_type |-> "static",
                                 primary_intent |-> STATIC_PATTERNS[first].intent,
                                 confidence |-> 9]
            ELSE IF \E i \in DOMAIN HYBRID_KEYWORDS : Contains(text, HYBRID_KEYWORDS[i])
            THEN route.intent = [query_type |-> "hybrid",
                                 primary_intent |-> "hybrid_analysis", confidence |-> 7]
            ELSE IF \E i \in DOMAIN SEMANTIC_KEYWORDS : Contains(text, SEMANTIC_KEYWORDS[i])
            THEN route.intent = [query_type |-> "semantic",
                                 primary_intent |-> "semantic_search", confidence |-> 8]
            ELSE route.intent = [query_type |-> "hybrid",
                                 primary_intent |-> "general_query", confidence |-> 5]

\* a routed query that two static patterns of different intents match
RoutedWithTwoStaticIntents ==
    /\ route.phase = "routed"
    /\ \E i, j \in StaticMatches(Strip(Lower(route.query))) :
           STATIC_PATTERNS[i].intent # STATIC_PATTERNS[j].intent

\* C17: when the generator raises and the static engine gave a successful
\* result, the returned llm_answer is the static formatted_answer; and a
\* failing generator never keeps execute_query from returning a result
GeneratorFailureFallsBackToStatic ==
    /\ hybrid.generator = "raises" => hybrid.phase = "returned"
    /\ (/\ hybrid.generator = "raises"
        /\ hybrid.static.ran
        /\ hybrid.static.success)
           => hybrid.llm_answer = hybrid.static.formatted_answer

\* execute_query has returned after a generator failure with a successful
\* static result at hand
ReturnedStaticAnswer ==
    /\ hybrid.phase = "returned"
    /\ hybrid.generator = "raises"
    /\ hybrid.static.ran
    /\ hybrid.static.success

\* the id of a function of the snapshot the static queries go to
IdOf(name) == <<StaticRepo, Commits[1], name>>

\* the ids reached from an id over at most k `calls` rows
RECURSIVE ReachedWithin(_, _)
ReachedWithin(from_id, k) ==
    IF k = 0 THEN {cs.id : cs \in {x \in codeSymbols : x.id = from_id}}
    ELSE ReachedWithin(from_id, k - 1) \cup Callees(ReachedWithin(from_id, k - 1))

\* the `calls` rows are those of the cycle a -> b -> c -> a
CallsAreCycle ==
    {<<sr.source_id, sr.target_id>> : sr \in symbolRels} =
        {<<IdOf("a"), IdOf("b")>>, <<IdOf("b"), IdOf("c")>>, <<IdOf("c"), IdOf("a")>>}

\* the queries of an unknown symbol: the name looked up is none of the snapshot's
SymbolQueryOfUnknown ==
    /\ squery.phase = "executed"
    /\ \/ /\ squery.intent \in {"find_symbol", "find_callers", "find_callees",
                                "find_reachable"}
          /\ Len(squery.entities) >= 1
          /\ squery.entities[1] \notin SymbolNames
       \/ /\ squery.intent = "find_call_path"
          /\ Len(squery.entities) = 2
          /\ \E i \in 1..2 : squery.entities[i] \notin SymbolNames

\* the queries of an unknown file
FileQueryOfUnknown ==
    /\ squery.phase = "executed"
    /\ squery.intent \in {"find_imports", "find_dependencies", "find_importers"}
    /\ Len(squery.entities) >= 1
    /\ squery.entities[1] \notin SymbolNames

\* success with nothing found and an answer that says so
NotFoundResult ==
    /\ squery.result.success
    /\ squery.result.rows = {}
    /\ squery.result.path = <<>>
    /\ squery.result.answer \in {"No symbol found matching", "Function not found",
                                 "One or both functions not found"}

\* the symbol queries alone answer an unknown name with a not-found success
UnknownSymbolNotFound == SymbolQueryOfUnknown => NotFoundResult

\* C18: a static query that names an unknown symbol (find_symbol,
\* find_callers, find_callees, find_call_path, find_reachable) or an unknown
\* file (find_imports, find_dependencies, find_importers) succeeds with an
\* empty result and a not-found answer
UnknownNameNotFound ==
    (SymbolQueryOfUnknown \/ FileQueryOfUnknown) => NotFoundResult

ReachableListedOnce ==
    (/\ squery.phase = "executed"
     /\ squery.intent = "find_reachable"
     /\ Len(squery.entities) >= 1
     /\ squery.entities[1] \in SymbolNames)
        => LET from_id == IdOf(squery.entities[1])
               listed == {row[1] : row \in squery.result.rows}
           IN  /\ squery.result.success
               /\ listed = Callees(ReachedWithin(from_id, ReachableDepth - 1))
               /\ \A id \in listed :
                      Cardinality({row \in squery.result.rows : row[1] = id}) = 1

\* find_reachable lists the right symbols, some of them more than once
ReachableSetIsRight ==
    (/\ squery.phase = "executed"
     /\ squery.intent = "find_reachable"
     /\ Len(squery.entities) >= 1
     /\ squery.entities[1] \in SymbolNames)
        => {row[1] : row \in squery.result.rows}
               = Callees(ReachedWithin(IdOf(squery.entities[1]), ReachableDepth - 1))

\* C12: a session's commit is fixed at creation (the requested commit, else
\* the repository's latest then) and no later ingestion changes it; every
\* message of the session is answered against the pinned (repo_id,
\* commit_sha): with its context, and from rows of that commit alone
AnsweredAtPinnedCommit ==
    /\ [](\A id \in DOMAIN sessions :
            sessions[id].commit_sha =
                IF sessions[id].requested # None
                THEN sessions[id].requested ELSE sessions[id].latest)
    /\ [](\A m \in DOMAIN answers :
            /\ answers[m].repo_id = sessions[answers[m].session].repo_id
            /\ answers[m].commit_sha = sessions[answers[m].session].commit_sha
            /\ answers[m].sources \subseteq {sessions[answers[m].session].commit_sha})
    /\ [][\A id \in DOMAIN sessions : sessions'[id] = sessions[id]]_vars

\* C21: find_callers, find_callees (find_reachable with it) and find_call_path
\* end by max_depth recursion levels on any call graph, cycles and self calls
\* included, and a symbol already visited is not expanded again: no symbol has
\* two rows below max_depth, the rows the recursive arm joins again, and no
\* path has a symbol twice
VisitedSymbolNotExpandedAgain ==
    /\ (/\ squery.phase = "executed"
        /\ squery.intent \in {"find_reachable", "find_callers"}
        /\ Len(squery.entities) >= 1
        /\ squery.entities[1] \in SymbolNames)
           => LET max_depth == IF squery.intent = "find_callers" THEN CallersDepth
                               ELSE ReachableDepth
              IN  /\ \A row \in squery.result.rows : row[2] \in 1..max_depth
                  /\ \A r1, r2 \in squery.result.rows :
                         (r1[1] = r2[1] /\ r1[2] < max_depth /\ r2[2] < max_depth)
                             => r1 = r2
    /\ squery.phase = "path" =>
           /\ Len(squery.result.path) <= squery.max_depth + 1
           /\ \A i, j \in 1..Len(squery.result.path) :
                  i # j => squery.result.path[i] # squery.result.path[j]

\* the recursive queries end by max_depth levels: no row is deeper
RecursionEndsByMaxDepth ==
    /\ (/\ squery.phase = "executed"
        /\ squery.intent \in {"find_reachable", "find_callers"})
           => \A row \in squery.result.rows :
                  row[2] <= IF squery.intent = "find_callers" THEN CallersDepth
                            ELSE ReachableDepth
    /\ squery.phase = "path" => Len(squery.result.path) <= squery.max_depth + 1

\* C22: whatever calls of the cache backend fail, and with no client at all,
\* no cache or embed call raises; get_embedding and get_query_result return a
\* miss when one of their backend calls fails or there is no client;
\* set_embedding and set_query_result return None; embed(text) returns the
\* model's vector of the text
CacheFailureNeverPropagates ==
    /\ ~cop.out.raised
    /\ (/\ cop.op \in {"get_embedding", "get_query_result"}
        /\ (cop.fails # {} \/ rcache.client = None))
           => cop.out.none
    /\ cop.op \in {"set_embedding", "set_query_result"} => cop.out.none
    /\ cop.op = "embed" => ~cop.out.none /\ cop.out.value = Encode(cop.text)

\* embed has returned the model's vector though the cache's get and setex failed
EmbeddedThroughFailingCache ==
    /\ cop.op = "embed"
    /\ {"get", "setex"} \subseteq cop.fails
    /\ "ping1" \notin cop.fails /\ "ping2" \notin cop.fails
    /\ "ping3" \notin cop.fails /\ "ping4" \notin cop.fails
    /\ rcache.client = "client"
    /\ cop.out = Returned(Encode(cop.text))

\* C23: once delete_repo_task has returned for a repository, no store holds
\* data of that repository: no symbol or relationship rows, no vectors and
\* no stored objects of any of its commits
DeleteRemovesEveryArtifact ==
    [][Len(deletes') > Len(deletes) =>
         LET repo_id == deletes'[Len(deletes')].repo_id IN
         /\ \A p \in symbolRows' \cup relRows' \cup vectors' : p[1] # repo_id
         /\ \A b \in blobs' : \A r \in repos : r.id = repo_id => b[1] # r.key]_vars

\* a delete task that returns success leaves no vector of the repository
SuccessfulDeleteRemovesVectors ==
    [][(/\ Len(deletes') > Len(deletes)
        /\ deletes'[Len(deletes')].status = "success")
          => \A p \in vectors' : p[1] # deletes'[Len(deletes')].repo_id]_vars

\* C24: every SymbolRelationship row has its source and its target among the
\* CodeSymbol rows of the row's own (repo_id, commit_sha), and no `calls` row
\* has its source as its target, a function that calls itself included
RelationshipEndsTogetherNoSelfCall ==
    \A e \in symbolRels :
        /\ \E src, tgt \in codeSymbols :
               /\ src.id = e.source_id /\ tgt.id = e.target_id
               /\ src.repo_id = e.repo_id /\ src.commit_sha = e.commit_sha
               /\ tgt.repo_id = e.repo_id /\ tgt.commit_sha = e.commit_sha
        /\ e.relationship_type = "calls" => e.source_id # e.target_id

\* the ends of every SymbolRelationship row are rows of its (repo_id, commit_sha)
RelationshipEndsTogether ==
    \A e \in symbolRels :
        \E src, tgt \in codeSymbols :
            /\ src.id = e.source_id /\ tgt.id = e.target_id
            /\ src.repo_id = e.repo_id /\ src.commit_sha = e.commit_sha
            /\ tgt.repo_id = e.repo_id /\ tgt.commit_sha = e.commit_sha

\* the first and the last declaration of a class name in the file
FirstDeclared(name) ==
    CHOOSE i \in 1..Len(ifile.classes) :
        /\ ifile.classes[i] = name
        /\ \A k \in 1..(i - 1) : ifile.classes[k] # name

LastDeclared(name) ==
    CHOOSE i \in 1..Len(ifile.classes) :
        /\ ifile.classes[i] = name
        /\ \A k \in (i + 1)..Len(ifile.classes) : ifile.classes[k] # name

\* the symbols of the file's methods
MethodSymbols ==
    {ifile.symbols[i] : i \in {k \in DOMAIN ifile.symbols :
                                  ifile.symbols[k].symbol_type = "method"}}

\* every class declaration has its symbol, all ids distinct
ClassesEmittedWithDistinctIds ==
    ifile.phase = "indexed" =>
        /\ \A i \in 1..Len(ifile.classes) :
               /\ ifile.symbols[i].symbol_type = "class"
               /\ ifile.symbols[i].name = ifile.classes[i]
        /\ \A i, k \in DOMAIN ifile.symbols :
               i # k => ifile.symbols[i].id # ifile.symbols[k].id

\* C25: when a file declares a class name twice, both declarations have a
\* symbol with an id of its own, and a method of a class of that name gets as
\* parent_symbol_id the id of the first declaration
MethodParentIsFirstDeclared ==
    /\ ClassesEmittedWithDistinctIds
    /\ ifile.phase = "indexed" =>
           \A m \in MethodSymbols :
               \A name \in {ifile.classes[i] : i \in DOMAIN ifile.classes} :
                   m.qualified_name = name \o ".m"
                       => m.parent_symbol_id = ifile.symbols[FirstDeclared(name)].id

\* a method's parent is the last declaration of its class name
MethodParentIsLastDeclared ==
    /\ ClassesEmittedWithDistinctIds
    /\ ifile.phase = "indexed" =>
           \A m \in MethodSymbols :
               \A name \in {ifile.classes[i] : i \in DOMAIN ifile.classes} :
                   m.qualified_name = name \o ".m"
                       => m.parent_symbol_id = ifile.symbols[LastDeclared(name)].id

\* C26: when the pipeline task returns, after success, after an exception of
\* any stage or after a failed clone, nothing it put on local disk is left:
\* neither its clone directory nor its source tarball
ScratchRemovedOnReturn ==
    [][\A w \in Workers :
          (wpc[w] = "finally" /\ wpc'[w] = "idle" /\ wtask[w].run \in DOMAIN runs)
              => /\ CloneDir(w) \notin disk'
                 /\ SourceTarball(wtask[w].run) \notin disk']_vars

\* when the pipeline task returns its clone directory is gone
CloneDirRemovedOnReturn ==
    [][\A w \in Workers :
          (wpc[w] = "finally" /\ wpc'[w] = "idle") => CloneDir(w) \notin disk']_vars

\* the ids a static result lists: those of its rows and those on its path
ReturnedIds ==
    {row[1] : row \in squery.result.rows}
        \cup {squery.result.path[i] : i \in DOMAIN squery.result.path}

\* the queries that answer with symbols of the call graph
SymbolQueryExecuted ==
    /\ squery.phase = "executed"
    /\ squery.intent \in {"find_symbol", "find_callers", "find_callees",
                          "find_call_path", "find_reachable"}

\* C27: every symbol a static query returns (find_symbol, find_callers,
\* find_callees, find_call_path, find_reachable) is a row of the repo_id and
\* the commit_sha the query was executed for, whatever other commits of the
\* repository are indexed
ResultsOfQueriedCommit ==
    SymbolQueryExecuted =>
        \A id \in ReturnedIds :
            \E cs \in codeSymbols :
                /\ cs.id = id
                /\ cs.repo_id = StaticRepo
                /\ cs.commit_sha = squery.commit_sha

\* every symbol a static query returns is a row of the repository queried,
\* and all of a result's symbols are of one commit
ResultsOfOneCommitOfRepository ==
    SymbolQueryExecuted =>
        /\ \A id \in ReturnedIds :
               \E cs \in codeSymbols : cs.id = id /\ cs.repo_id = StaticRepo
        /\ squery.intent # "find_symbol" =>
               \A id1, id2 \in ReturnedIds : id1[2] = id2[2]

\* C28: an ingest call answered 403, the repository existing and the caller
\* without access to it, leaves the stored state as it was: the Repository
\* rows, latest_commit_sha included, the access rows and the runs
RejectedIngestChangesNothing ==
    [][(/\ calls' = calls + 1
        /\ calls' \in DOMAIN responses'
        /\ responses'[calls'].code = 403)
          => /\ repos' = repos
             /\ access' = access
             /\ runs' = runs
             /\ queue' = queue]_vars

\* an ingest call answered 403 creates no run and grants no access
RejectedIngestCreatesNoRun ==
    [][(/\ calls' = calls + 1
        /\ calls' \in DOMAIN responses'
        /\ responses'[calls'].code = 403)
          => /\ access' = access
             /\ runs' = runs
             /\ queue' = queue
             /\ {r.id : r \in repos'} = {r.id : r \in repos}]_vars

\* the stored messages of a call with a role
StoredMessages(call, role) ==
    {i \in DOMAIN chatDb.stored : /\ chatDb.stored[i].table = "chatmessage"
                                   /\ chatDb.stored[i].call = call
                                   /\ chatDb.stored[i].role = role}

\* the stored chunk links of a call
StoredLinks(call) ==
    {i \in DOMAIN chatDb.stored : /\ chatDb.stored[i].table = "messagechunk"
                                   /\ chatDb.stored[i].call = call}

Finished(r) == r \in DOMAIN runs /\ runs[r].status \in {"completed", "failed"}

\* C30: every IngestionRun that start_ingestion has committed is eventually
\* COMPLETED or FAILED, the workers consuming the queue
EveryRunEventuallyFinishes ==
    \A r \in 1..MaxCalls : (r \in DOMAIN runs) ~> Finished(r)

\* a run whose task message is on the queue is eventually set RUNNING
QueuedRunIsStarted ==
    \A r \in 1..MaxCalls : (r \in queue) ~> (r \in started)

\* a run of which no task was cancelled and whose failure handler could
\* commit is, once its message is on the queue, eventually finished
QueuedRunFinishesUnlessCancelledOrBroken ==
    \A r \in 1..MaxCalls :
        (r \in queue) ~> \/ Finished(r)
                         \/ faults > 0
                         \/ \E w \in Workers : wtask[w].run = r /\ wtask[w].broken

\* a committed run is eventually set RUNNING: the part of C30 about a submit
\* that fails, which does not hold either
CommittedRunIsStarted ==
    \A r \in 1..MaxCalls : (r \in DOMAIN runs) ~> (r \in started)

====
